---------------------------- MODULE Spec2Model ----------------------------
(***************************************************************************)
(* HttplibApp: trie-based path router (src/src/Route.cpp) and JWT engine   *)
(* (src/src/Jwt.cpp) with the providers of src/tester/src/jwtTester.cpp.   *)
(*                                                                         *)
(* A std::string / std::string_view is a sequence of byte values (0..255). *)
(* String literals of the source are written as tuples of their bytes with *)
(* the text in a comment.                                                  *)
(***************************************************************************)
EXTENDS Integers, Sequences, FiniteSets, TLC

VARIABLES
    root,         \* Router::Impl::root_ : the trie (a nested TrieNode value)
    addCount,     \* number of Router::add calls made so far
    ctx,          \* MockCtx::params_ of the context handed to match
    matchDone,    \* whether match has been called on the current context
    matchArgs,    \* <<method, path>> of the last match call
    matchRes,     \* what the last match call returned (a RouteInfo or NoRoute)
    matchCalls,   \* the setParam calls the last match made, in order
    mwCount,      \* number of Router::addMiddleware(routeInfo, mw) calls so far
    registry,     \* history: <<node address, method>> -> what the last add there
                  \* installed and the middlewares attached to it since, in call order
    globalMws,    \* the router's global middlewares, in registration order
    execState,    \* "idle", "running" or "done": where Router::execute is
    chain,        \* the stages execute built: global, per-route, handler
    stack,        \* the stages now running (nested calls), innermost last
    trace,        \* the stages started so far, in order
    nextCalls,    \* per stage of the chain, how often it invoked next
    extraNexts,   \* repeated next invocations made during this execute
    keys_,        \* FakeCryptoProvider::keys_ : the kids the provider knows
    options_,     \* Jwt::Impl::options_.policy
    builder,      \* the TokenBuilder: its header_ and claims_ maps
    outToken,     \* the caller's token string (written by sign, altered by Tamper)
    signRet,      \* error code the last TokenBuilder::sign returned ("None": no call yet)
    signedAs,     \* history: what the last successful sign was given
    tampered,     \* history: whether a byte of outToken was replaced since sign
    verifier,     \* the caller's Verifier (Verifier::Impl fields)
    verifyRet,    \* error code the last Jwt::verify returned ("None": no call yet)
    verifyCalls,  \* provider calls the last Jwt::verify made, in order
    verifyEnv,    \* history: provider keys, policy, clock and token of the last
                  \* verify, and whether the verifier handed to it held ok = true
    files,        \* the key files present in the binary directory
    bootCalls,    \* provider calls the last ensureKeyPairInBinaryDir made, in order
    bootRet,      \* error code it returned ("None": no call yet)
    bootEnv,      \* history: the files it found and the provider call that failed
    methodCall,   \* history: argument and result of the last Router::fromMethodString
    reqs          \* per concurrent caller: where its Router::match call is, the
                  \* locals of that call and the caller's own context

routerVars == <<root, addCount, ctx, matchDone, matchArgs, matchRes, matchCalls,
                mwCount, registry, methodCall, reqs>>

execVars == <<globalMws, execState, chain, stack, trace, nextCalls, extraNexts>>

jwtVars == <<keys_, options_, builder, outToken, signRet, signedAs, tampered, verifier,
             verifyRet, verifyCalls, verifyEnv>>

bootVars == <<files, bootCalls, bootRet, bootEnv>>

vars == <<routerVars, execVars, jwtVars, bootVars>>

---------------------------------------------------------------------------
(* Characters the source names.                                            *)
Slash == 47
Lt    == 60
Gt    == 62
Colon == 58
Minus == 45
Plus  == 43
Dot   == 46
Equal == 61
Under == 95

IsDigit(c)  == c >= 48 /\ c <= 57
IsUpper(c)  == c >= 65 /\ c <= 90
IsLower(c)  == c >= 97 /\ c <= 122
IsAlnum(c)  == IsDigit(c) \/ IsUpper(c) \/ IsLower(c)
IsXDigit(c) == IsDigit(c) \/ (c >= 65 /\ c <= 70) \/ (c >= 97 /\ c <= 102)

(* The element of a one-element set.  In Once({e(x) : x \in {v}}) the      *)
(* value v is computed once, however often e uses x.                       *)
Once(S) == CHOOSE v \in S : TRUE

(* std::string_view::find(ch, from): 1-based index of the first ch at or    *)
(* after position from, 0 for npos.                                         *)
Find(s, ch, from) ==
    Once({ LET hits == {i \in from..Len(str) : str[i] = ch}
           IN  IF hits = {} THEN 0 ELSE CHOOSE i \in hits : \A k \in hits : i <= k
           : str \in {s} })

EmptyMap == [k \in {} |-> 0]

MapPut(m, k, v) == [x \in (DOMAIN m) \cup {k} |-> IF x = k THEN v ELSE m[x]]

---------------------------------------------------------------------------
(* enum class ParamType (the value is the specificity rank)                *)
INT      == 0
BASE64ID == 1
STRING_   == 2
UUID     == 3
FLOAT    == 4
GENERIC  == 255

ParamTypes == {INT, BASE64ID, STRING_, UUID, FLOAT, GENERIC}

(* enum class HttpMethod                                                   *)
HttpMethods == {"GET", "POST", "PUT", "PATCH", "DELETE", "OPTIONS", "HEAD", "ANY"}

---------------------------------------------------------------------------
(* Parameter validators                                                    *)

validateIntParam(value) ==
    IF value = <<>> THEN FALSE
    ELSE LET start == IF value[1] = Minus \/ value[1] = Plus THEN 1 ELSE 0
         IN  IF start >= Len(value) THEN FALSE
             ELSE \A i \in (start + 1)..Len(value) : IsDigit(value[i])

validateBase64IdParam(value) ==
    IF Len(value) # 22 /\ Len(value) # 24 THEN FALSE
    ELSE IF Len(value) = 24 /\ (value[23] # Equal \/ value[24] # Equal) THEN FALSE
    ELSE \A i \in 1..22 : IsAlnum(value[i]) \/ value[i] = Minus \/ value[i] = Under

validateUuidParam(value) ==
    IF Len(value) # 36 THEN FALSE
    ELSE \A i \in 1..36 :
            IF i \in {9, 14, 19, 24} THEN value[i] = Minus ELSE IsXDigit(value[i])

(* The scan of validateFloatParam from position i with the has_dot flag;   *)
(* TRUE when no character is rejected.                                     *)
RECURSIVE FloatScan(_, _, _)
FloatScan(value, i, has_dot) ==
    IF i > Len(value) THEN TRUE
    ELSE IF IsDigit(value[i]) THEN FloatScan(value, i + 1, has_dot)
    ELSE IF value[i] = Dot /\ ~has_dot THEN FloatScan(value, i + 1, TRUE)
    ELSE FALSE

validateFloatParam(value) ==
    IF value = <<>> THEN FALSE
    ELSE LET i == IF value[1] = Minus \/ value[1] = Plus THEN 1 ELSE 0
         IN  IF i >= Len(value) THEN FALSE
             ELSE /\ FloatScan(value, i + 1, FALSE)
                  /\ \E k \in (i + 1)..Len(value) : IsDigit(value[k])

(* TypedParam::validate whose string case leaves to uuid and float what    *)
(* they accept.                                                            *)
Validate_StringYields(type, value) ==
    CASE type = INT      -> validateIntParam(value)
      [] type = BASE64ID -> validateBase64IdParam(value)
      [] type = UUID     -> validateUuidParam(value)
      [] type = FLOAT    -> validateFloatParam(value)
      [] type = STRING_   -> value # <<>> /\ ~validateUuidParam(value)
                                         /\ ~validateFloatParam(value)
      [] OTHER           -> TRUE

(* TypedParam::validate                                                    *)
Validate(type, value) ==
    CASE type = INT      -> validateIntParam(value)
      [] type = BASE64ID -> validateBase64IdParam(value)
      [] type = UUID     -> validateUuidParam(value)
      [] type = FLOAT    -> validateFloatParam(value)
      [] type = STRING_   -> value # <<>>
      [] OTHER           -> TRUE

---------------------------------------------------------------------------
(* Router::Impl::splitPath                                                 *)

RECURSIVE SplitFrom(_, _)
SplitFrom(path, start) ==
    IF start > Len(path) THEN <<>>
    ELSE LET end == Find(path, Slash, start)
         IN  IF end = 0 THEN << SubSeq(path, start, Len(path)) >>
             ELSE << SubSeq(path, start, end - 1) >> \o SplitFrom(path, end + 1)

(* splitPath that keeps the leading slash.                                 *)
splitPath_LeadingKept(path) ==
    LET p1 == IF Len(path) > 1 /\ path[Len(path)] = Slash
              THEN SubSeq(path, 1, Len(path) - 1) ELSE path
    IN  IF p1 = <<>> THEN <<>> ELSE SplitFrom(p1, 1)

(* Router::Impl::splitPath: one trailing slash removed when the path is    *)
(* longer than one character, then one leading slash, then the split.      *)
splitPath(path) ==
    LET p1 == IF Len(path) > 1 /\ path[Len(path)] = Slash
              THEN SubSeq(path, 1, Len(path) - 1) ELSE path
        p2 == IF p1 # <<>> /\ p1[1] = Slash THEN Tail(p1) ELSE p1
    IN  IF p2 = <<>> THEN <<>> ELSE SplitFrom(p2, 1)

(* Router::Impl::parseSegment                                              *)
TypeOfName(type_str) ==
    CASE type_str = <<105, 110, 116>>                      -> INT       \* "int"
      [] type_str = <<98, 97, 115, 101, 54, 52, 105, 100>> -> BASE64ID  \* "base64id"
      [] type_str = <<115, 116, 114, 105, 110, 103>>       -> STRING_    \* "string"
      [] type_str = <<117, 117, 105, 100>>                 -> UUID      \* "uuid"
      [] type_str = <<102, 108, 111, 97, 116>>             -> FLOAT     \* "float"
      [] OTHER                                             -> GENERIC

parseSegment(segment) ==
    IF segment # <<>> /\ segment[1] = Lt /\ segment[Len(segment)] = Gt
    THEN LET inner     == SubSeq(segment, 2, Len(segment) - 1)
             colon_pos == Find(inner, Colon, 1)
         IN  IF colon_pos # 0
             THEN [is_param |-> TRUE,
                   name     |-> SubSeq(inner, 1, colon_pos - 1),
                   type     |-> TypeOfName(SubSeq(inner, colon_pos + 1, Len(inner)))]
             ELSE [is_param |-> TRUE, name |-> inner, type |-> GENERIC]
    ELSE [is_param |-> FALSE, name |-> segment, type |-> GENERIC]

---------------------------------------------------------------------------
(* TrieNode, TypedParam, RouteInfo                                         *)

EmptyNode == [literals |-> EmptyMap, typed_params |-> <<>>, handlers |-> EmptyMap]

NoRoute == [found |-> FALSE]

(* Mutant of getHandler: the ANY entry is looked up before the method's.   *)
getHandler_AnyFirst(node, method) ==
    IF "ANY" \in DOMAIN node.handlers THEN node.handlers["ANY"]
    ELSE IF method \in DOMAIN node.handlers THEN node.handlers[method]
    ELSE [found |-> FALSE]

(* TrieNode::getHandler                                                    *)
getHandler(node, method) ==
    IF method \in DOMAIN node.handlers THEN node.handlers[method]
    ELSE IF "ANY" \in DOMAIN node.handlers THEN node.handlers["ANY"]
    ELSE NoRoute

(* Mutant of LowerBound: the new entry always goes to the end.             *)
LowerBound_End(typed_params, type) ==
    LET same == {i \in 1..Len(typed_params) : typed_params[i].type = type}
    IN  IF same = {} THEN Len(typed_params) + 1
        ELSE CHOOSE i \in same : \A j \in same : i <= j

(* std::lower_bound over typed_params with the rank comparison: the index  *)
(* of the first entry whose rank is not below type, Len + 1 when none.     *)
LowerBound(typed_params, type) ==
    LET hits == {i \in 1..Len(typed_params) : ~(typed_params[i].type < type)}
    IN  IF hits = {} THEN Len(typed_params) + 1
        ELSE CHOOSE i \in hits : \A j \in hits : i <= j

(* std::vector::insert(it, value)                                          *)
InsertAt(seq, i, v) == SubSeq(seq, 1, i - 1) \o <<v>> \o SubSeq(seq, i, Len(seq))

(* getOrCreateNode that gives a reused entry the name of the new segment.  *)
getOrCreateNode_Renames(current, segment) ==
    LET parsed == parseSegment(segment) IN
    IF ~parsed.is_param
    THEN [node |-> IF parsed.name \in DOMAIN current.literals THEN current
                   ELSE [current EXCEPT !.literals = MapPut(@, parsed.name, EmptyNode)],
          is_lit |-> TRUE, key |-> parsed.name, idx |-> 0]
    ELSE LET it == LowerBound(current.typed_params, parsed.type) IN
         IF it <= Len(current.typed_params) /\ current.typed_params[it].type = parsed.type
         THEN [node |-> [current EXCEPT !.typed_params[it].name = parsed.name],
               is_lit |-> FALSE, key |-> <<>>, idx |-> it]
         ELSE [node |-> [current EXCEPT !.typed_params =
                            InsertAt(@, it, [name |-> parsed.name, type |-> parsed.type,
                                             next |-> EmptyNode])],
               is_lit |-> FALSE, key |-> <<>>, idx |-> it]

(* Router::Impl::getOrCreateNode: the node after the call and the place of *)
(* the child it returns a reference to (a literal key or an index of       *)
(* typed_params).                                                          *)
getOrCreateNode(current, segment) ==
    LET parsed == parseSegment(segment) IN
    IF ~parsed.is_param
    THEN [node |-> IF parsed.name \in DOMAIN current.literals THEN current
                   ELSE [current EXCEPT !.literals = MapPut(@, parsed.name, EmptyNode)],
          is_lit |-> TRUE, key |-> parsed.name, idx |-> 0]
    ELSE LET it == LowerBound(current.typed_params, parsed.type) IN
         IF it <= Len(current.typed_params) /\ current.typed_params[it].type = parsed.type
         THEN [node |-> current, is_lit |-> FALSE, key |-> <<>>, idx |-> it]
         ELSE [node |-> [current EXCEPT !.typed_params =
                            InsertAt(@, it, [name |-> parsed.name, type |-> parsed.type,
                                             next |-> EmptyNode])],
               is_lit |-> FALSE, key |-> <<>>, idx |-> it]

(* Mutant of AddAt: an existing entry for the method keeps its             *)
(* middlewares when the new RouteInfo is stored.                           *)
RECURSIVE AddAt_KeepsMiddlewares(_, _, _)
AddAt_KeepsMiddlewares(current, segments, route_info) ==
    IF segments = <<>>
    THEN [current EXCEPT !.handlers =
             MapPut(@, route_info.method,
                    IF route_info.method \in DOMAIN current.handlers
                    THEN [route_info EXCEPT !.middlewares =
                              current.handlers[route_info.method].middlewares]
                    ELSE route_info)]
    ELSE LET r == getOrCreateNode(current, Head(segments)) IN
         IF r.is_lit
         THEN [r.node EXCEPT !.literals[r.key] =
                                 AddAt_KeepsMiddlewares(@, Tail(segments), route_info)]
         ELSE [r.node EXCEPT !.typed_params[r.idx].next =
                                 AddAt_KeepsMiddlewares(@, Tail(segments), route_info)]

(* Router::Impl::add below node `current` for the remaining segments: the  *)
(* traversal creates the nodes, the final node stores the RouteInfo.       *)
RECURSIVE AddAt(_, _, _)
AddAt(current, segments, route_info) ==
    IF segments = <<>>
    THEN [current EXCEPT !.handlers = MapPut(@, route_info.method, route_info)]
    ELSE LET r == getOrCreateNode(current, Head(segments)) IN
         IF r.is_lit
         THEN [r.node EXCEPT !.literals[r.key] = AddAt(@, Tail(segments), route_info)]
         ELSE [r.node EXCEPT !.typed_params[r.idx].next =
                                 AddAt(@, Tail(segments), route_info)]

(* Mutant of RouteInfo: the pattern is stored without its trailing slash.  *)
RouteInfo_Trimmed(method, pattern, handler) ==
    [found |-> TRUE,
     pattern |-> IF Len(pattern) > 1 /\ pattern[Len(pattern)] = Slash
                 THEN SubSeq(pattern, 1, Len(pattern) - 1) ELSE pattern,
     method |-> method, handler |-> handler, middlewares |-> <<>>]

(* RouteInfo route_info {.pattern, .method, .handler, .middlewares = {}}   *)
RouteInfo(method, pattern, handler) ==
    [found |-> TRUE, pattern |-> pattern, method |-> method,
     handler |-> handler, middlewares |-> <<>>]

ImplAdd(t, method, pattern, handler) ==
    AddAt(t, splitPath(pattern), RouteInfo(method, pattern, handler))

(* The typed-parameter scan of match: index of the first entry whose       *)
(* validator accepts the segment, 0 when none does.                        *)
FirstAccepting(typed_params, segment) ==
    LET hits == {i \in 1..Len(typed_params) : Validate(typed_params[i].type, segment)}
    IN  IF hits = {} THEN 0 ELSE CHOOSE i \in hits : \A j \in hits : i <= j

(* Mutant of MatchFrom: typed parameters are tried before the literals.    *)
RECURSIVE MatchFrom_ParamsFirst(_, _, _, _)
MatchFrom_ParamsFirst(current, segments, method, calls) ==
    IF segments = <<>>
    THEN [route |-> getHandler(current, method), calls |-> calls]
    ELSE LET segment == Head(segments)
             i == FirstAccepting(current.typed_params, segment) IN
         IF i # 0
         THEN MatchFrom_ParamsFirst(current.typed_params[i].next, Tail(segments), method,
                      Append(calls, <<current.typed_params[i].name, segment>>))
         ELSE IF segment \in DOMAIN current.literals
         THEN MatchFrom_ParamsFirst(current.literals[segment], Tail(segments), method, calls)
         ELSE [route |-> [found |-> FALSE], calls |-> calls]

(* Mutant of MatchFrom: when the subtree of the child taken returns no     *)
(* route, the later alternatives are tried.                                *)
RECURSIVE MatchFrom_Backtracks(_, _, _, _)
MatchFrom_Backtracks(current, segments, method, calls) ==
    IF segments = <<>>
    THEN [route |-> getHandler(current, method), calls |-> calls]
    ELSE LET segment == Head(segments)
             Try(i) == MatchFrom_Backtracks(current.typed_params[i].next, Tail(segments),
                           method, Append(calls, <<current.typed_params[i].name, segment>>))
             hits == {i \in 1..Len(current.typed_params) :
                         Validate(current.typed_params[i].type, segment)
                         /\ Try(i).route.found}
             lit  == IF segment \in DOMAIN current.literals
                     THEN MatchFrom_Backtracks(current.literals[segment], Tail(segments),
                                               method, calls)
                     ELSE [route |-> NoRoute, calls |-> calls]
         IN  IF lit.route.found THEN lit
             ELSE IF hits = {} THEN [route |-> NoRoute, calls |-> calls]
             ELSE Try(CHOOSE i \in hits : \A j \in hits : i <= j)

(* Router::Impl::match: the route returned and the setParam calls made.    *)
RECURSIVE MatchFrom(_, _, _, _)
MatchFrom(current, segments, method, calls) ==
    IF segments = <<>>
    THEN [route |-> getHandler(current, method), calls |-> calls]
    ELSE LET segment == Head(segments) IN
         IF segment \in DOMAIN current.literals
         THEN MatchFrom(current.literals[segment], Tail(segments), method, calls)
         ELSE LET i == FirstAccepting(current.typed_params, segment) IN
              IF i = 0 THEN [route |-> NoRoute, calls |-> calls]
              ELSE MatchFrom(current.typed_params[i].next, Tail(segments), method,
                             Append(calls, <<current.typed_params[i].name, segment>>))

ImplMatch(t, method, path) == MatchFrom(t, splitPath(path), method, <<>>)

(* Mutant of ApplyCalls: the context is cleared before the calls are       *)
(* applied.                                                                *)
ApplyCalls_Cleared(params, calls) ==
    [name \in {calls[i][1] : i \in 1..Len(calls)} |->
        LET last == CHOOSE i \in 1..Len(calls) :
                        /\ calls[i][1] = name
                        /\ \A j \in 1..Len(calls) : calls[j][1] = name => j <= i
        IN  calls[last][2]]

(* MockCtx::setParam applied for each call in order                        *)
RECURSIVE ApplyCalls(_, _)
ApplyCalls(params, calls) ==
    IF calls = <<>> THEN params
    ELSE ApplyCalls(MapPut(params, Head(calls)[1], Head(calls)[2]), Tail(calls))

(* The place of a pattern's final node: one edge per segment, a literal    *)
(* key or the rank of a typed parameter (getOrCreateNode keeps one         *)
(* TypedParam per rank, so the rank names the edge).                       *)
NodeAddr(segments) ==
    [i \in 1..Len(segments) |->
        LET parsed == parseSegment(segments[i]) IN
        IF parsed.is_param THEN <<"par", parsed.type>> ELSE <<"lit", parsed.name>>]

(* Index of the TypedParam of rank type in typed_params, 0 when absent.    *)
IndexOfType(typed_params, type) ==
    LET hits == {i \in 1..Len(typed_params) : typed_params[i].type = type}
    IN  IF hits = {} THEN 0 ELSE CHOOSE i \in hits : \A j \in hits : i <= j

(* Mutant of PushMiddleware: the middleware is put in front of the list.   *)
RECURSIVE PushMiddleware_Front(_, _, _, _)
PushMiddleware_Front(node, addr, method, middleware) ==
    IF addr = <<>>
    THEN [node EXCEPT !.handlers[method].middlewares = <<middleware>> \o @]
    ELSE IF Head(addr)[1] = "lit"
    THEN [node EXCEPT !.literals[Head(addr)[2]] =
                          PushMiddleware_Front(@, Tail(addr), method, middleware)]
    ELSE [node EXCEPT !.typed_params[IndexOfType(node.typed_params, Head(addr)[2])].next =
                          PushMiddleware_Front(@, Tail(addr), method, middleware)]

(* Router::addMiddleware (RouteInfo &routeInfo, Middleware middleware):    *)
(* push_back on the RouteInfo the reference designates, the entry for      *)
(* method at the node at address addr.                                     *)
RECURSIVE PushMiddleware(_, _, _, _)
PushMiddleware(node, addr, method, middleware) ==
    IF addr = <<>>
    THEN [node EXCEPT !.handlers[method].middlewares = Append(@, middleware)]
    ELSE IF Head(addr)[1] = "lit"
    THEN [node EXCEPT !.literals[Head(addr)[2]] =
                          PushMiddleware(@, Tail(addr), method, middleware)]
    ELSE [node EXCEPT !.typed_params[IndexOfType(node.typed_params, Head(addr)[2])].next =
                          PushMiddleware(@, Tail(addr), method, middleware)]

---------------------------------------------------------------------------
(* JWT engine (src/src/Jwt.cpp, src/include/Jwt.h) with the providers of   *)
(* src/tester/src/jwtTester.cpp.                                           *)

(* enum class JwtAlg *)
HS256 == 0
RS256 == 1
ES256 == 2
EdDSA == 3

JwtAlgs == {HS256, RS256, ES256, EdDSA}

Pipe == 124
Semi == 59

K_alg == <<97, 108, 103>>   \* "alg"
K_kid == <<107, 105, 100>>   \* "kid"
K_typ == <<116, 121, 112>>   \* "typ"
K_iss == <<105, 115, 115>>   \* "iss"
K_aud == <<97, 117, 100>>   \* "aud"
K_exp == <<101, 120, 112>>   \* "exp"
K_nbf == <<110, 98, 102>>   \* "nbf"
S_JWT == <<74, 87, 84>>   \* "JWT"

---------------------------------------------------------------------------
(* int64_t.  A value is the tuple of its four 16-bit limbs in two's        *)
(* complement, least significant first, so that sums wrap at 2^64 as the   *)
(* machine's do.                                                           *)
LimbBase == 65536
HalfBase == 32768

(* The int64_t of an integer n with -2^31 < n < 2^31 *)
I64(n) ==
    <<n % LimbBase, (n \div LimbBase) % LimbBase,
      IF n < 0 THEN LimbBase - 1 ELSE 0, IF n < 0 THEN LimbBase - 1 ELSE 0>>

(* std::numeric_limits<int64_t>::max () and min () *)
I64Max == <<LimbBase - 1, LimbBase - 1, LimbBase - 1, HalfBase - 1>>
I64Min == <<0, 0, 0, HalfBase>>

IsNeg64(a) == a[4] >= HalfBase

(* a + b modulo 2^64 *)
Add64(a, b) ==
    LET s1 == a[1] + b[1]
        s2 == a[2] + b[2] + (s1 \div LimbBase)
        s3 == a[3] + b[3] + (s2 \div LimbBase)
        s4 == a[4] + b[4] + (s3 \div LimbBase)
    IN  <<s1 % LimbBase, s2 % LimbBase, s3 % LimbBase, s4 % LimbBase>>

Neg64(a) ==
    Add64(<<LimbBase - 1 - a[1], LimbBase - 1 - a[2], LimbBase - 1 - a[3],
            LimbBase - 1 - a[4]>>, I64(1))

(* The limbs compared as an unsigned number *)
LessU64(a, b) ==
    \E i \in 1..4 : a[i] < b[i] /\ \A k \in (i + 1)..4 : a[k] = b[k]

(* a < b on int64_t *)
Less64(a, b) ==
    IF IsNeg64(a) # IsNeg64(b) THEN IsNeg64(a) ELSE LessU64(a, b)

(* Whether the mathematical sum leaves int64_t: 1 above max, -1 below min  *)
Overflow64(a, b) ==
    IF IsNeg64(a) # IsNeg64(b) THEN 0
    ELSE IF IsNeg64(Add64(a, b)) = IsNeg64(a) THEN 0
    ELSE IF IsNeg64(a) THEN 0 - 1 ELSE 1

(* An unsigned 64-bit magnitude times 10 plus the digit d; carry is what   *)
(* does not fit.                                                           *)
Mul10Add(u, d) ==
    LET s1 == 10 * u[1] + d
        s2 == 10 * u[2] + (s1 \div LimbBase)
        s3 == 10 * u[3] + (s2 \div LimbBase)
        s4 == 10 * u[4] + (s3 \div LimbBase)
    IN  [v     |-> <<s1 % LimbBase, s2 % LimbBase, s3 % LimbBase, s4 % LimbBase>>,
         carry |-> s4 \div LimbBase]

(* An unsigned magnitude divided by 10: quotient and remainder.            *)
DivMod10(u) ==
    LET c4 == u[4]
        c3 == (c4 % 10) * LimbBase + u[3]
        c2 == (c3 % 10) * LimbBase + u[2]
        c1 == (c2 % 10) * LimbBase + u[1]
    IN  [q |-> <<c1 \div 10, c2 \div 10, c3 \div 10, c4 \div 10>>, r |-> c1 % 10]

(* Whether the magnitude u with the sign neg is an int64_t                 *)
FitsI64(u, neg) == u[4] < HalfBase \/ (neg /\ u = I64Min)

(* Decimal digits of an unsigned magnitude *)
RECURSIVE DigitsOfU64(_)
DigitsOfU64(u) ==
    Once({ IF dm.q = I64(0) THEN <<48 + dm.r>> ELSE DigitsOfU64(dm.q) \o <<48 + dm.r>>
           : dm \in {DivMod10(u)} })

(* ClaimValue = std::variant<nullptr_t, bool, int64_t, double, string>.    *)
(* A double is kept as the decimal m * 10^e it stands for, normalised so   *)
(* that m is not a multiple of 10 (m = 0 has e = 0); the universes stay    *)
(* within the magnitudes and digit counts a double holds exactly enough to *)
(* tell such decimals apart.                                               *)
VNull      == [t |-> "n"]
VBool(b)   == [t |-> "b", b |-> b]
VInt64(x)  == [t |-> "i", v |-> x]
VInt(n)    == VInt64(I64(n))
VStr(str)  == [t |-> "s", v |-> str]

RECURSIVE Pow10(_)
Pow10(k) == IF k <= 0 THEN 1 ELSE 10 * Pow10(k - 1)

RECURSIVE Normalised(_, _)
Normalised(m, e) ==
    IF m = 0 THEN [m |-> 0, e |-> 0]
    ELSE IF m % 10 = 0 THEN Normalised(m \div 10, e + 1)
    ELSE [m |-> m, e |-> e]

VDouble(m, e) == [t |-> "d", m |-> Normalised(m, e).m, e |-> Normalised(m, e).e]

Abs(n) == IF n < 0 THEN 0 - n ELSE n

(* Decimal digits of n >= 0, as std::to_string and operator<< print them.  *)
RECURSIVE DigitsOf(_)
DigitsOf(n) == IF n < 10 THEN <<48 + n>> ELSE DigitsOf(n \div 10) \o <<48 + (n % 10)>>

(* std::to_string (int) and std::ostream << int64_t *)
IntToText(n) == IF n < 0 THEN <<Minus>> \o DigitsOf(0 - n) ELSE DigitsOf(n)

(* std::ostream << int64_t *)
I64ToText(x) == IF IsNeg64(x) THEN <<Minus>> \o DigitsOfU64(Neg64(x)) ELSE DigitsOfU64(x)

Zeros(k) == [i \in 1..k |-> 48]

(* std::ostream << double with the stream defaults (%g, precision 6): at   *)
(* most six significant digits (round to nearest; the universes hold no    *)
(* value whose seventh digit onward is an exact half), trailing zeros      *)
(* dropped, scientific notation when the decimal exponent is below -4 or   *)
(* at least 6.                                                             *)
DoubleToText(d) ==
    IF d.m = 0 THEN <<48>>
    ELSE
    LET a    == Abs(d.m)
        n    == Len(DigitsOf(a))
        cut  == Pow10(n - 6)
        r    == IF n > 6
                THEN Normalised((a \div cut) + (IF 2 * (a % cut) >= cut THEN 1 ELSE 0),
                                d.e + n - 6)
                ELSE [m |-> a, e |-> d.e]
        D    == DigitsOf(r.m)
        X    == Len(D) - 1 + r.e
        sign == IF d.m < 0 THEN <<Minus>> ELSE <<>>
        body ==
            IF X < 0 - 4 \/ X >= 6
            THEN <<D[1]>>
                 \o (IF Len(D) > 1 THEN <<Dot>> \o SubSeq(D, 2, Len(D)) ELSE <<>>)
                 \o <<101>> \o (IF X < 0 THEN <<Minus>> ELSE <<Plus>>)
                 \o (IF Abs(X) < 10 THEN <<48>> ELSE <<>>) \o DigitsOf(Abs(X))
            ELSE IF r.e >= 0 THEN D \o Zeros(r.e)
            ELSE IF X >= 0 THEN SubSeq(D, 1, X + 1) \o <<Dot>> \o SubSeq(D, X + 2, Len(D))
            ELSE <<48, Dot>> \o Zeros(0 - X - 1) \o D
    IN  sign \o body

(* Index just after the longest run of decimal digits starting at i.       *)
DigitRunEnd(s, i) ==
    LET stops == {j \in i..Len(s) : ~IsDigit(s[j])}
    IN  IF stops = {} THEN Len(s) + 1
        ELSE CHOOSE j \in stops : \A k \in stops : j <= k

RECURSIVE DigitsValue(_, _, _, _)
DigitsValue(s, i, j, acc) ==
    IF i >= j THEN acc ELSE DigitsValue(s, i + 1, j, 10 * acc + (s[i] - 48))

(* The digits s[i..j-1] accumulated onto the unsigned magnitude acc; over  *)
(* tells that the magnitude left 64 bits on the way.                       *)
RECURSIVE MagnitudeOf(_, _, _, _)
MagnitudeOf(s, i, j, acc) ==
    IF i >= j THEN [v |-> acc, over |-> FALSE]
    ELSE Once({ IF step.carry > 0 THEN [v |-> step.v, over |-> TRUE]
                ELSE MagnitudeOf(s, i + 1, j, step.v)
                : step \in {Mul10Add(acc, s[i] - 48)} })

(* std::from_chars (first, last, int64_t&): optional '-', then at least    *)
(* one digit; the longest digit prefix is converted and what follows is    *)
(* ignored; a number outside int64_t is result_out_of_range (ok = FALSE).  *)
FromChars(value) ==
    LET neg == Len(value) >= 1 /\ value[1] = Minus
        i   == IF neg THEN 2 ELSE 1
        j   == DigitRunEnd(value, i)
    IN  IF j = i THEN [ok |-> FALSE]
        ELSE Once({ IF mag.over \/ ~FitsI64(mag.v, neg) THEN [ok |-> FALSE]
                    ELSE [ok |-> TRUE, v |-> IF neg THEN Neg64(mag.v) ELSE mag.v]
                    : mag \in {MagnitudeOf(value, i, j, I64(0))} })

IsSpace(c) == c = 32 \/ (c >= 9 /\ c <= 13)

(* std::stod (text) for the decimal spellings: leading white space, an     *)
(* optional sign, digits with an optional '.', an optional exponent; the   *)
(* longest such prefix is converted and the rest ignored; no digit at all  *)
(* throws (ok = FALSE).  The "inf", "nan" and hexadecimal spellings cannot *)
(* arise from the values of the universes below and are not covered.       *)
Stod(text) ==
    LET nonsp == {j \in 1..Len(text) : ~IsSpace(text[j])}
        b     == IF nonsp = {} THEN Len(text) + 1
                 ELSE CHOOSE j \in nonsp : \A k \in nonsp : j <= k
        signd == b <= Len(text) /\ text[b] \in {Minus, Plus}
        neg   == signd /\ text[b] = Minus
        i     == IF signd THEN b + 1 ELSE b
        j     == DigitRunEnd(text, i)
        dot   == j <= Len(text) /\ text[j] = Dot
        f     == IF dot THEN j + 1 ELSE j
        g     == IF dot THEN DigitRunEnd(text, f) ELSE j
        nfrac == g - f
        mant  == DigitsValue(text, f, g, DigitsValue(text, i, j, 0))
        hasE  == g <= Len(text) /\ text[g] \in {101, 69}
        esign == hasE /\ g + 1 <= Len(text) /\ text[g + 1] \in {Minus, Plus}
        x     == IF esign THEN g + 2 ELSE g + 1
        y     == IF hasE THEN DigitRunEnd(text, x) ELSE x
        ex    == IF hasE /\ y > x
                 THEN (IF esign /\ text[g + 1] = Minus THEN 0 - 1 ELSE 1)
                      * DigitsValue(text, x, y, 0)
                 ELSE 0
    IN  IF (j - i) + nfrac = 0 THEN [ok |-> FALSE]
        ELSE [ok |-> TRUE,
              v  |-> VDouble(IF neg THEN 0 - mant ELSE mant, ex - nfrac)]

(* Order of two different byte strings, byte by byte.                      *)
LexLess(a, b) ==
    \E i \in 1..(Len(a) + 1) :
        /\ i <= Len(b)
        /\ \A k \in 1..(i - 1) : a[k] = b[k]
        /\ (i > Len(a) \/ a[i] < b[i])

(* The keys of a map in the order a range-for over the std::unordered_map  *)
(* visits them.  The standard leaves that order unspecified; the model     *)
(* lets a traversal run in ascending ("asc") or descending ("desc") key    *)
(* order.                                                                  *)
RECURSIVE KeysInOrder(_, _)
KeysInOrder(keys, order) ==
    Once({ IF ks = {} THEN <<>>
           ELSE LET k == CHOOSE x \in ks :
                             \A y \in ks \ {x} :
                                 IF order = "asc" THEN LexLess(x, y) ELSE LexLess(y, x)
                IN  <<k>> \o KeysInOrder(ks \ {k}, order)
           : ks \in {keys} })

MapOrders == {"asc", "desc"}

(* FakeJsonProvider::writeMap, one item: key '|' type '|' value *)
WriteItem(key, value) ==
    key \o <<Pipe>> \o
    (CASE value.t = "n" -> <<110, Pipe>>
       [] value.t = "b" -> <<98, Pipe>> \o (IF value.b THEN <<49>> ELSE <<48>>)
       [] value.t = "i" -> <<105, Pipe>> \o I64ToText(value.v)
       [] value.t = "d" -> <<100, Pipe>> \o DoubleToText(value)
       [] value.t = "s" -> <<115, Pipe>> \o value.v)

RECURSIVE WriteItems(_, _, _)
WriteItems(map, ks, i) ==
    IF i > Len(ks) THEN <<>>
    ELSE (IF i > 1 THEN <<Semi>> ELSE <<>>) \o WriteItem(ks[i], map[ks[i]])
         \o WriteItems(map, ks, i + 1)

(* FakeJsonProvider::toJson / writeMap: always Ok *)
writeMap(map, order) ==
    Once({ WriteItems(map, ks, 1) : ks \in {KeysInOrder(DOMAIN map, order)} })

(* One turn of the while loop of FakeJsonProvider::parseMap: the item that *)
(* starts at position start; out holds the entries stored so far and stays *)
(* as it is on an error.  next is the position the loop goes on from.      *)
ParseItem(text, start, out) ==
    LET semi  == Find(text, Semi, start)
        end   == IF semi = 0 THEN Len(text) + 1 ELSE semi
        item  == SubSeq(text, start, end - 1)
        p1    == Find(item, Pipe, 1)
        p2    == IF p1 = 0 THEN 0 ELSE Find(item, Pipe, p1 + 1)
        key   == SubSeq(item, 1, p1 - 1)
        type  == item[p1 + 1]
        value == SubSeq(item, p2 + 1, Len(item))
        bad   == [code |-> "InvalidJson", map |-> out, next |-> end + 1]
        Put(v) == [code |-> "Ok", map |-> MapPut(out, key, v), next |-> end + 1]
    IN  IF p1 = 0 \/ p2 = 0 THEN bad
        ELSE IF type = 110 THEN Put(VNull)
        ELSE IF type = 98 THEN Put(VBool(value = <<49>>))
        ELSE IF type = 105
        THEN IF FromChars(value).ok THEN Put(VInt64(FromChars(value).v)) ELSE bad
        ELSE IF type = 100
        THEN IF Stod(value).ok THEN Put(Stod(value).v) ELSE bad
        ELSE IF type = 115 THEN Put(VStr(value))
        ELSE bad

(* The while loop of FakeJsonProvider::parseMap from position start on.    *)
RECURSIVE ParseItems(_, _, _)
ParseItems(text, start, out) ==
    IF start > Len(text) THEN [code |-> "Ok", map |-> out]
    ELSE Once({ IF r.code # "Ok" THEN [code |-> r.code, map |-> r.map]
                ELSE ParseItems(text, r.next, r.map)
                : r \in {ParseItem(text, start, out)} })

(* FakeJsonProvider::parseHeader / parseClaims / parseMap *)
parseMap(text) ==
    Once({ IF t = <<>> THEN [code |-> "Ok", map |-> EmptyMap]
           ELSE ParseItems(t, 1, EmptyMap)
           : t \in {text} })

(* FakeCryptoProvider::base64UrlEncode: two upper-case hex digits per byte *)
HexDigit(n) == IF n < 10 THEN 48 + n ELSE 65 + (n - 10)

(* Mutant of base64UrlEncode: the two digits of a byte are swapped.        *)
base64UrlEncode_LowNibbleFirst(data) ==
    Once({ [i \in 1..(2 * Len(d)) |->
               IF i % 2 = 1 THEN HexDigit(d[(i + 1) \div 2] % 16)
               ELSE HexDigit((d[i \div 2] \div 16) % 16)]
           : d \in {data} })

base64UrlEncode(data) ==
    Once({ [i \in 1..(2 * Len(d)) |->
               IF i % 2 = 1 THEN HexDigit((d[(i + 1) \div 2] \div 16) % 16)
               ELSE HexDigit(d[i \div 2] % 16)]
           : d \in {data} })

(* decode_nibble of FakeCryptoProvider::base64UrlDecode *)
decode_nibble(c) ==
    IF c >= 48 /\ c <= 57 THEN c - 48
    ELSE IF c >= 65 /\ c <= 70 THEN 10 + (c - 65)
    ELSE IF c >= 97 /\ c <= 102 THEN 10 + (c - 97)
    ELSE 0 - 1

(* FakeCryptoProvider::base64UrlDecode *)
base64UrlDecode(text) ==
    Once({ IF Len(t) % 2 # 0 THEN [code |-> "InvalidBase64Url"]
           ELSE IF \E i \in 1..Len(t) : decode_nibble(t[i]) < 0
           THEN [code |-> "InvalidBase64Url"]
           ELSE [code |-> "Ok",
                 data |-> [i \in 1..(Len(t) \div 2) |->
                              16 * decode_nibble(t[2 * i - 1]) + decode_nibble(t[2 * i])]]
           : t \in {text} })

(* FakeCryptoProvider::sign *)
CryptoSign(keys, alg, kid, data) ==
    IF kid \notin keys THEN [code |-> "KeyNotFound"]
    ELSE [code |-> "Ok", signature |-> IntToText(alg) \o <<Pipe>> \o kid \o <<Pipe>> \o data]

(* Mutant of CryptoVerify: the signature is compared without looking the   *)
(* kid up in the key store.                                                *)
CryptoVerify_NoLookup(keys, alg, kid, data, signature) ==
    IF IntToText(alg) \o <<Pipe>> \o kid \o <<Pipe>> \o data # signature
    THEN "SignatureMismatch"
    ELSE "Ok"

(* FakeCryptoProvider::verify *)
CryptoVerify(keys, alg, kid, data, signature) ==
    IF kid \notin keys THEN "KeyNotFound"
    ELSE Once({ IF expected.code # "Ok" THEN expected.code
                ELSE IF expected.signature # signature THEN "SignatureMismatch"
                ELSE "Ok"
                : expected \in {CryptoSign(keys, alg, kid, data)} })

A_HS256 == <<72, 83, 50, 53, 54>>   \* "HS256"
A_RS256 == <<82, 83, 50, 53, 54>>   \* "RS256"
A_ES256 == <<69, 83, 50, 53, 54>>   \* "ES256"
A_EdDSA == <<69, 100, 68, 83, 65>>   \* "EdDSA"

(* An std::optional is the empty sequence (nullopt) or a one-element one.  *)
Nullopt == <<>>
Some(x) == <<x>>

(* getStringValue (HeaderMap) and getStringClaim (ClaimMap) *)
getStringValue(map, key) ==
    IF key \in DOMAIN map /\ map[key].t = "s" THEN Some(map[key].v) ELSE Nullopt

(* What the hardware does where the C++ standard leaves the result open:  *)
(* add is "wrap" when a signed sum that leaves int64_t wraps at 2^64 and   *)
(* "exact" when the test that uses it comes out as for the mathematical    *)
(* sum; cast is "min" when a double outside int64_t converts to the        *)
(* smallest int64_t (x86-64) and "saturate" when it converts to the        *)
(* nearest one (AArch64).                                                  *)
Builds == [add : {"wrap", "exact"}, cast : {"min", "saturate"}]

(* The build that wraps sums and converts as x86-64 does *)
WrapMinBuild == [add |-> "wrap", cast |-> "min"]

(* m * 10^e for e >= 0 as an unsigned magnitude, over when it left 64 bits *)
RECURSIVE TimesPow10(_, _)
TimesPow10(u, e) ==
    IF e <= 0 THEN [v |-> u, over |-> FALSE]
    ELSE Once({ IF step.carry > 0 THEN [v |-> step.v, over |-> TRUE]
                ELSE TimesPow10(step.v, e - 1)
                : step \in {Mul10Add(u, 0)} })

(* static_cast<int64_t> (value) of the integer-valued double m * 10^e      *)
DoubleToI64(m, e, build) ==
    Once({ IF mag.over \/ ~FitsI64(mag.v, m < 0)
           THEN IF build.cast = "min" \/ m < 0 THEN I64Min ELSE I64Max
           ELSE IF m < 0 THEN Neg64(mag.v) ELSE mag.v
           : mag \in {TimesPow10(I64(IF m < 0 THEN 0 - m ELSE m), e)} })

(* getIntValue: an int64_t, or a double equal to its floor *)
getIntValue(map, key, build) ==
    IF key \notin DOMAIN map THEN Nullopt
    ELSE IF map[key].t = "i" THEN Some(map[key].v)
    ELSE IF map[key].t = "d" /\ map[key].e >= 0
    THEN Some(DoubleToI64(map[key].m, map[key].e, build))
    ELSE Nullopt

fromAlgString(alg) ==
    IF alg = A_HS256 THEN Some(HS256)
    ELSE IF alg = A_RS256 THEN Some(RS256)
    ELSE IF alg = A_ES256 THEN Some(ES256)
    ELSE IF alg = A_EdDSA THEN Some(EdDSA)
    ELSE Nullopt

toAlgString(alg) ==
    CASE alg = HS256 -> A_HS256
      [] alg = RS256 -> A_RS256
      [] alg = ES256 -> A_ES256
      [] alg = EdDSA -> A_EdDSA
      [] OTHER -> <<>>

(* Mutant of containsAlg: every algorithm is admitted.                     *)
containsAlg_AllowsAll(allowed, alg) == TRUE

(* containsAlg: an empty allow-list admits every algorithm *)
containsAlg(allowed, alg) ==
    allowed = <<>> \/ \E i \in 1..Len(allowed) : allowed[i] = alg

(* struct Policy with its default member initialisers *)
DefaultPolicy ==
    [allowedAlgs |-> <<>>, expectedIss |-> Nullopt, expectedAud |-> Nullopt,
     leewaySeconds |-> 0, requireExp |-> TRUE, requireNbf |-> FALSE]

(* getStringClaim: the string a claim holds, if it holds one *)
getStringClaim(map, key) ==
    IF key \in DOMAIN map /\ map[key].t = "s" THEN Some(map[key].v) ELSE Nullopt

(* a + b as the build computes it: v is the sum modulo 2^64 and over the  *)
(* band of 2^64 the sum lies in when the build keeps it ("exact").         *)
Sum64(a, b, build) ==
    [v |-> Add64(a, b), over |-> IF build.add = "wrap" THEN 0 ELSE Overflow64(a, b)]

(* x < y for two such sums *)
LessSum(x, y) == IF x.over # y.over THEN x.over < y.over ELSE Less64(x.v, y.v)

(* Mutant of validatePolicy: the audience is not tested.                   *)
validatePolicy_AudienceUnchecked(policy, claims, now, build) ==
    LET exp    == getIntValue(claims, K_exp, build)
        nbf    == getIntValue(claims, K_nbf, build)
        leeway == I64(policy.leewaySeconds)
        plain(x) == [v |-> x, over |-> 0]
    IN  IF policy.expectedIss # Nullopt
           /\ getStringClaim(claims, K_iss) # policy.expectedIss
        THEN "InvalidIssuer"
        ELSE IF policy.requireExp /\ exp = Nullopt
        THEN "PolicyViolation"
        ELSE IF policy.requireExp
                /\ LessSum(Sum64(exp[1], leeway, build), plain(I64(now)))
        THEN "Expired"
        ELSE IF policy.requireNbf /\ nbf = Nullopt
        THEN "PolicyViolation"
        ELSE IF policy.requireNbf
                /\ LessSum(Sum64(I64(now), leeway, build), plain(nbf[1]))
        THEN "NotYetValid"
        ELSE "Ok"

(* validatePolicy; now is what std::time (nullptr) returns *)
(* Mutant of validatePolicy: exp and nbf are tested whenever the token     *)
(* bears them; requireExp and requireNbf only decide whether a missing     *)
(* claim is a violation.                                                   *)
validatePolicy_TimesWhenPresent(policy, claims, now, build) ==
    LET exp    == getIntValue(claims, K_exp, build)
        nbf    == getIntValue(claims, K_nbf, build)
        leeway == I64(policy.leewaySeconds)
        plain(x) == [v |-> x, over |-> 0]
    IN  IF policy.expectedIss # Nullopt
           /\ getStringClaim(claims, K_iss) # policy.expectedIss
        THEN "InvalidIssuer"
        ELSE IF policy.expectedAud # Nullopt
                /\ getStringClaim(claims, K_aud) # policy.expectedAud
        THEN "InvalidAudience"
        ELSE IF policy.requireExp /\ exp = Nullopt
        THEN "PolicyViolation"
        ELSE IF exp # Nullopt
                /\ LessSum(Sum64(exp[1], leeway, build), plain(I64(now)))
        THEN "Expired"
        ELSE IF policy.requireNbf /\ nbf = Nullopt
        THEN "PolicyViolation"
        ELSE IF nbf # Nullopt
                /\ LessSum(Sum64(I64(now), leeway, build), plain(nbf[1]))
        THEN "NotYetValid"
        ELSE "Ok"

validatePolicy(policy, claims, now, build) ==
    LET exp    == getIntValue(claims, K_exp, build)
        nbf    == getIntValue(claims, K_nbf, build)
        leeway == I64(policy.leewaySeconds)
        plain(x) == [v |-> x, over |-> 0]
    IN  IF policy.expectedIss # Nullopt
           /\ getStringClaim(claims, K_iss) # policy.expectedIss
        THEN "InvalidIssuer"
        ELSE IF policy.expectedAud # Nullopt
                /\ getStringClaim(claims, K_aud) # policy.expectedAud
        THEN "InvalidAudience"
        ELSE IF policy.requireExp /\ exp = Nullopt
        THEN "PolicyViolation"
        ELSE IF policy.requireExp
                /\ LessSum(Sum64(exp[1], leeway, build), plain(I64(now)))
        THEN "Expired"
        ELSE IF policy.requireNbf /\ nbf = Nullopt
        THEN "PolicyViolation"
        ELSE IF policy.requireNbf
                /\ LessSum(Sum64(I64(now), leeway, build), plain(nbf[1]))
        THEN "NotYetValid"
        ELSE "Ok"

(* TokenBuilder::TokenBuilder (jwt): header {alg=HS256, typ=JWT}, no claims *)
FreshBuilder ==
    [header |-> MapPut(MapPut(EmptyMap, K_alg, VStr(toAlgString(HS256))), K_typ, VStr(S_JWT)),
     claims |-> EmptyMap]

(* jwt.token().alg (alg).kid (kid) and one claim (name, value) call per     *)
(* entry of claims                                                         *)
Built(alg, kid, claims) ==
    [header |-> MapPut(MapPut(FreshBuilder.header, K_alg, VStr(toAlgString(alg))),
                       K_kid, VStr(kid)),
     claims |-> claims]

(* TokenBuilder::sign from the signing input on: the provider's sign and   *)
(* the assembly of the token.                                              *)
SignInput(keys, alg, kid, signingInput) ==
    Once({ IF signed.code # "Ok" THEN [code |-> signed.code]
           ELSE [code  |-> "Ok",
                 token |-> signingInput \o <<Dot>> \o base64UrlEncode(signed.signature)]
           : signed \in {CryptoSign(keys, alg, kid, signingInput)} })

(* TokenBuilder::sign: the error code and, when it is Ok, the token        *)
BuilderSign(header, claims, keys, headerOrder, claimsOrder) ==
    LET algText == getStringValue(header, K_alg)
        alg     == fromAlgString(algText[1])
        kidText == getStringValue(header, K_kid)
    IN  IF algText = Nullopt THEN [code |-> "UnsupportedAlg"]
        ELSE IF alg = Nullopt THEN [code |-> "UnsupportedAlg"]
        ELSE IF kidText = Nullopt THEN [code |-> "KeyNotFound"]
        ELSE Once({ SignInput(keys, alg[1], kidText[1], signingInput)
                    : signingInput \in
                          {base64UrlEncode(writeMap(header, headerOrder)) \o <<Dot>>
                           \o base64UrlEncode(writeMap(claims, claimsOrder))} })

(* Verifier {} : a default-constructed Verifier::Impl *)
FreshVerifier ==
    [ok |-> FALSE, error |-> "Ok", rawToken |-> <<>>, rawHeaderJson |-> <<>>,
     rawPayloadJson |-> <<>>, header |-> EmptyMap, claims |-> EmptyMap]

(* Mutant of ResetVerifier: verify writes into the verifier as it finds it. *)
ResetVerifier_Keeps(outVerifier) == outVerifier

(* outVerifier = Verifier {}: whatever the caller's verifier held is        *)
(* replaced by a default-constructed one.                                  *)
ResetVerifier(outVerifier) == FreshVerifier

(* Mutant of Fail: the returned code is not stored in the verifier.        *)
Fail_ErrorNotStored(code, v, calls) == [ret |-> code, v |-> v, calls |-> calls]

(* The result of Jwt::verify: ret is the returned code, v the verifier it  *)
(* leaves (error_ set to that code), calls the provider calls made.        *)
Fail(code, v, calls) == [ret |-> code, v |-> [v EXCEPT !.error = code], calls |-> calls]

(* Jwt::verify with validatePolicy consulted before the provider's verify. *)
VerifyParsed_PolicyFirst(v, hp, cp, signingInput, signatureBytes, keys, policy, now, build) ==
    LET c4      == <<"base64UrlDecode", "base64UrlDecode", "base64UrlDecode", "parseHeader">>
        c5      == c4 \o <<"parseClaims">>
        c6      == c5 \o <<"verify">>
        v4      == [v EXCEPT !.header = hp.map]
        v5      == [v4 EXCEPT !.claims = cp.map]
        algText == getStringValue(hp.map, K_alg)
        alg     == fromAlgString(algText[1])
        kidText == getStringValue(hp.map, K_kid)
    IN  IF hp.code # "Ok" THEN Fail(hp.code, v4, c4)
        ELSE IF cp.code # "Ok" THEN Fail(cp.code, v5, c5)
        ELSE IF algText = Nullopt THEN Fail("UnsupportedAlg", v5, c5)
        ELSE IF alg = Nullopt THEN Fail("UnsupportedAlg", v5, c5)
        ELSE IF ~containsAlg(policy.allowedAlgs, alg[1]) THEN Fail("UnsupportedAlg", v5, c5)
        ELSE IF kidText = Nullopt THEN Fail("KeyNotFound", v5, c5)
        ELSE Once({ IF pol # "Ok" THEN Fail(pol, v5, c6)
                    ELSE IF sig # "Ok" THEN Fail(sig, v5, c6)
                    ELSE [ret |-> "Ok", v |-> [v5 EXCEPT !.ok = TRUE, !.error = "Ok"],
                          calls |-> c6]
                    : sig \in {CryptoVerify(keys, alg[1], kidText[1], signingInput,
                                            signatureBytes)},
                      pol \in {validatePolicy(policy, cp.map, now, build)} })

(* Jwt::verify after both parse calls: v holds the raw JSON texts and the  *)
(* parsed maps hp.map and cp.map.                                          *)
VerifyParsed(v, hp, cp, signingInput, signatureBytes, keys, policy, now, build) ==
    LET c4      == <<"base64UrlDecode", "base64UrlDecode", "base64UrlDecode", "parseHeader">>
        c5      == c4 \o <<"parseClaims">>
        c6      == c5 \o <<"verify">>
        v4      == [v EXCEPT !.header = hp.map]
        v5      == [v4 EXCEPT !.claims = cp.map]
        algText == getStringValue(hp.map, K_alg)
        alg     == fromAlgString(algText[1])
        kidText == getStringValue(hp.map, K_kid)
    IN  IF hp.code # "Ok" THEN Fail(hp.code, v4, c4)
        ELSE IF cp.code # "Ok" THEN Fail(cp.code, v5, c5)
        ELSE IF algText = Nullopt THEN Fail("UnsupportedAlg", v5, c5)
        ELSE IF alg = Nullopt THEN Fail("UnsupportedAlg", v5, c5)
        ELSE IF ~containsAlg(policy.allowedAlgs, alg[1]) THEN Fail("UnsupportedAlg", v5, c5)
        ELSE IF kidText = Nullopt THEN Fail("KeyNotFound", v5, c5)
        ELSE Once({ IF sig # "Ok" THEN Fail(sig, v5, c6)
                    ELSE IF pol # "Ok" THEN Fail(pol, v5, c6)
                    ELSE [ret |-> "Ok", v |-> [v5 EXCEPT !.ok = TRUE, !.error = "Ok"],
                          calls |-> c6]
                    : sig \in {CryptoVerify(keys, alg[1], kidText[1], signingInput,
                                            signatureBytes)},
                      pol \in {validatePolicy(policy, cp.map, now, build)} })

(* Jwt::verify after the three base64UrlDecode calls.  The header is       *)
(* parsed first and the claims only when that succeeded.                   *)
VerifyDecoded(v0, hdec, pdec, sdec, signingInput, keys, policy, now, build) ==
    IF hdec.code # "Ok" THEN Fail(hdec.code, v0, <<"base64UrlDecode">>)
    ELSE IF pdec.code # "Ok" THEN Fail(pdec.code, v0, <<"base64UrlDecode", "base64UrlDecode">>)
    ELSE IF sdec.code # "Ok"
    THEN Fail(sdec.code, v0, <<"base64UrlDecode", "base64UrlDecode", "base64UrlDecode">>)
    ELSE Once({ VerifyParsed([v0 EXCEPT !.rawHeaderJson = hdec.data,
                                         !.rawPayloadJson = pdec.data],
                             hp, cp, signingInput, sdec.data, keys, policy, now, build)
                : hp \in {parseMap(hdec.data)},
                  cp \in {parseMap(pdec.data)} })

(* Jwt::verify: ret is the returned code, v the verifier it leaves, calls  *)
(* the provider calls it made, in order.  The three parts are decoded one  *)
(* after the other and the first failing decode ends the call.             *)
JwtVerify(outVerifier, token, keys, policy, now, build) ==
    LET v0        == [ResetVerifier(outVerifier) EXCEPT !.rawToken = token]
        firstDot  == Find(token, Dot, 1)
        secondDot == IF firstDot = 0 THEN 0 ELSE Find(token, Dot, firstDot + 1)
        thirdDot  == IF secondDot = 0 THEN 0 ELSE Find(token, Dot, secondDot + 1)
        headerPart    == SubSeq(token, 1, firstDot - 1)
        payloadPart   == SubSeq(token, firstDot + 1, secondDot - 1)
        signaturePart == SubSeq(token, secondDot + 1, Len(token))
    IN  IF firstDot = 0 THEN Fail("InvalidFormat", v0, <<>>)
        ELSE IF secondDot = 0 \/ thirdDot # 0 THEN Fail("InvalidFormat", v0, <<>>)
        ELSE Once({ VerifyDecoded(v0, hdec, pdec, sdec, headerPart \o <<Dot>> \o payloadPart,
                                  keys, policy, now, build)
                    : hdec \in {base64UrlDecode(headerPart)},
                      pdec \in {base64UrlDecode(payloadPart)},
                      sdec \in {base64UrlDecode(signaturePart)} })

---------------------------------------------------------------------------
(* Bounds                                                                  *)
MaxAdds       == 2
MaxMws        == 2
MaxGlobalMws  == 2
MaxExtraNexts == 1

(* The threads that serve requests on the one router, each with a context  *)
(* of its own (httplib runs the handlers of a server on a thread pool).    *)
Callers == {"t1", "t2"}

(* A caller that is not inside Router::match.                              *)
IdleCall == [pc |-> "idle"]

(* Router state after construction, with a fresh context.                  *)
RouterInit ==
    /\ root = EmptyNode
    /\ addCount = 0
    /\ ctx = EmptyMap
    /\ matchDone = FALSE
    /\ matchArgs = <<>>
    /\ matchRes = NoRoute
    /\ matchCalls = <<>>
    /\ mwCount = 0
    /\ registry = EmptyMap
    /\ methodCall = [valid |-> FALSE]
    /\ reqs = [c \in Callers |-> IdleCall]

(* Router::execute not called yet, no global middleware registered.        *)
ExecInit ==
    /\ globalMws = <<>>
    /\ execState = "idle"
    /\ chain = <<>>
    /\ stack = <<>>
    /\ trace = <<>>
    /\ nextCalls = <<>>
    /\ extraNexts = 0

(* router.add (method, pattern, handler)                                   *)
Add(method, pattern, handler) ==
    /\ ~matchDone
    /\ execState = "idle"
    /\ addCount < MaxAdds
    /\ root' = ImplAdd(root, method, pattern, handler)
    /\ addCount' = addCount + 1
    /\ registry' = MapPut(registry, <<NodeAddr(splitPath(pattern)), method>>,
                          [pattern |-> pattern, method |-> method, handler |-> handler,
                           seq |-> addCount + 1, attached |-> <<>>])
    /\ UNCHANGED <<ctx, matchDone, matchArgs, matchRes, matchCalls, mwCount, methodCall,
                   reqs>>
    /\ UNCHANGED <<execVars, jwtVars, bootVars>>

(* router.addMiddleware (route, middleware), route a reference returned by *)
(* an earlier add                                                          *)
AddMiddleware(ref, middleware) ==
    /\ ~matchDone
    /\ execState = "idle"
    /\ mwCount < MaxMws
    /\ ref \in DOMAIN registry
    /\ root' = PushMiddleware(root, ref[1], ref[2], middleware)
    /\ mwCount' = mwCount + 1
    /\ registry' = [registry EXCEPT ![ref].attached = Append(@, middleware)]
    /\ UNCHANGED <<addCount, ctx, matchDone, matchArgs, matchRes, matchCalls, methodCall,
                   reqs>>
    /\ UNCHANGED <<execVars, jwtVars, bootVars>>

(* router.match (method, path, ctx) on a context not used since its clear  *)
Match(method, path) ==
    /\ ~matchDone
    /\ LET r == ImplMatch(root, method, path) IN
         /\ matchRes' = r.route
         /\ matchCalls' = r.calls
         /\ ctx' = ApplyCalls(ctx, r.calls)
    /\ matchArgs' = <<method, path>>
    /\ matchDone' = TRUE
    /\ UNCHANGED <<root, addCount, mwCount, registry, methodCall, reqs>>
    /\ UNCHANGED <<execVars, jwtVars, bootVars>>

(* ctx.clear (): the request is over                                       *)
ClearCtx ==
    /\ matchDone
    /\ execState = "idle"
    /\ ctx' = EmptyMap
    /\ matchDone' = FALSE
    /\ matchArgs' = <<>>
    /\ matchRes' = NoRoute
    /\ matchCalls' = <<>>
    /\ UNCHANGED <<root, addCount, mwCount, registry, methodCall, reqs>>
    /\ UNCHANGED <<execVars, jwtVars, bootVars>>

(* The keys of method_map in Router::fromMethodString.                     *)
S_GET     == <<71, 69, 84>>   \* "GET"
S_POST    == <<80, 79, 83, 84>>   \* "POST"
S_PUT     == <<80, 85, 84>>   \* "PUT"
S_PATCH   == <<80, 65, 84, 67, 72>>   \* "PATCH"
S_DELETE  == <<68, 69, 76, 69, 84, 69>>   \* "DELETE"
S_OPTIONS == <<79, 80, 84, 73, 79, 78, 83>>   \* "OPTIONS"
S_HEAD    == <<72, 69, 65, 68>>   \* "HEAD"

(* method_map of Router::fromMethodString: key text, HttpMethod value.     *)
method_map ==
    { <<S_GET, "GET">>, <<S_POST, "POST">>, <<S_PUT, "PUT">>, <<S_PATCH, "PATCH">>,
      <<S_DELETE, "DELETE">>, <<S_OPTIONS, "OPTIONS">>, <<S_HEAD, "HEAD">> }

(* fromMethodString whose fallback is the wildcard value instead of GET.   *)
fromMethodString_FallbackAny(method) ==
    IF \E e \in method_map : e[1] = method
    THEN (CHOOSE e \in method_map : e[1] = method)[2]
    ELSE "ANY"

(* Router::fromMethodString: method_map.find (method), an exact comparison *)
(* of the bytes; the mapped value when found, HttpMethod::GET otherwise.   *)
fromMethodString(method) ==
    IF \E e \in method_map : e[1] = method
    THEN (CHOOSE e \in method_map : e[1] = method)[2]
    ELSE "GET"

(* A call Router::fromMethodString (method), the text of a request line.   *)
FromMethodString(method) ==
    /\ methodCall' = [valid |-> TRUE, method |-> method, ret |-> fromMethodString(method)]
    /\ UNCHANGED <<root, addCount, ctx, matchDone, matchArgs, matchRes, matchCalls,
                   mwCount, registry, reqs>>
    /\ UNCHANGED <<execVars, jwtVars, bootVars>>

(* Router::addMiddleware (Middleware): append to the global sequence.      *)
AddGlobalMiddleware(middleware) ==
    /\ ~matchDone
    /\ execState = "idle"
    /\ Len(globalMws) < MaxGlobalMws
    /\ globalMws' = Append(globalMws, middleware)
    /\ UNCHANGED <<root, addCount, ctx, matchDone, matchArgs, matchRes, matchCalls,
                   mwCount, registry, methodCall, reqs>>
    /\ UNCHANGED <<execState, chain, stack, trace, nextCalls, extraNexts>>
    /\ UNCHANGED <<jwtVars, bootVars>>

(* The chain Router::execute builds for routeInfo: the global middlewares, *)
(* the route's middlewares, the handler.                                   *)
BuildChain(globals, routeInfo) ==
    [i \in 1..Len(globals) |-> [kind |-> "global", id |-> globals[i]]]
    \o [i \in 1..Len(routeInfo.middlewares) |->
            [kind |-> "route", id |-> routeInfo.middlewares[i]]]
    \o << [kind |-> "handler", id |-> routeInfo.handler] >>

Started(c, i) == [idx |-> i, kind |-> c[i].kind, id |-> c[i].id]

(* router.execute (matched route, ctx): the first stage of the chain starts. *)
Execute ==
    /\ matchDone
    /\ matchRes.found
    /\ execState = "idle"
    /\ chain' = BuildChain(globalMws, matchRes)
    /\ execState' = "running"
    /\ stack' = << [idx |-> 1, nexts |-> 0] >>
    /\ trace' = << Started(chain', 1) >>
    /\ nextCalls' = [i \in 1..Len(chain') |-> 0]
    /\ extraNexts' = 0
    /\ UNCHANGED <<globalMws>>
    /\ UNCHANGED <<routerVars, jwtVars, bootVars>>

(* The frame on top of the stack after the running stage has invoked next  *)
(* and the frame of the stage next starts.                                 *)
StackAfterNext(st) ==
    LET top == st[Len(st)]
    IN  SubSeq(st, 1, Len(st) - 1)
        \o << [top EXCEPT !.nexts = @ + 1], [idx |-> top.idx + 1, nexts |-> 0] >>

(* The running middleware invokes next: the following stage starts.        *)
InvokeNext ==
    /\ execState = "running"
    /\ LET top == stack[Len(stack)] IN
         /\ chain[top.idx].kind # "handler"
         /\ top.nexts > 0 => extraNexts < MaxExtraNexts
         /\ extraNexts' = IF top.nexts > 0 THEN extraNexts + 1 ELSE extraNexts
         /\ stack' = StackAfterNext(stack)
         /\ trace' = Append(trace, Started(chain, top.idx + 1))
         /\ nextCalls' = [nextCalls EXCEPT ![top.idx] = @ + 1]
    /\ UNCHANGED <<globalMws, execState, chain>>
    /\ UNCHANGED <<routerVars, jwtVars, bootVars>>

(* What is left of the stack when the running stage returns.               *)
StackAfterReturn(st) == SubSeq(st, 1, Len(st) - 1)

(* Mutant of Return: a middleware that returns without having invoked     *)
(* next lets the chain go on with the following stage.                     *)
Return_AutoAdvance ==
    /\ execState = "running"
    /\ LET top == stack[Len(stack)] IN
         IF top.nexts = 0 /\ chain[top.idx].kind # "handler"
         THEN /\ stack' = SubSeq(stack, 1, Len(stack) - 1)
                            \o << [idx |-> top.idx + 1, nexts |-> 0] >>
              /\ trace' = Append(trace, Started(chain, top.idx + 1))
              /\ execState' = "running"
         ELSE /\ stack' = StackAfterReturn(stack)
              /\ trace' = trace
              /\ execState' = IF stack' = <<>> THEN "done" ELSE "running"
    /\ UNCHANGED <<globalMws, chain, nextCalls, extraNexts>>
    /\ UNCHANGED <<routerVars, jwtVars, bootVars>>

(* The running stage (middleware or handler) returns to its caller.        *)
Return ==
    /\ execState = "running"
    /\ stack' = StackAfterReturn(stack)
    /\ execState' = IF stack' = <<>> THEN "done" ELSE "running"
    /\ UNCHANGED <<globalMws, chain, trace, nextCalls, extraNexts>>
    /\ UNCHANGED <<routerVars, jwtVars, bootVars>>

---------------------------------------------------------------------------
(* JWT engine: state after construction and operations.                    *)

(* FakeCryptoProvider, Jwt {crypto, json, EngineOptions {}}, an empty      *)
(* token string and a default-constructed Verifier.                        *)
EngineInit ==
    /\ keys_ = {}
    /\ options_ = DefaultPolicy
    /\ outToken = <<>>
    /\ signRet = "None"
    /\ signedAs = [valid |-> FALSE]
    /\ tampered = FALSE
    /\ verifier = FreshVerifier
    /\ verifyRet = "None"
    /\ verifyCalls = <<>>
    /\ verifyEnv = [valid |-> FALSE]

JwtInit == EngineInit /\ builder = FreshBuilder

(* jwt.generateKeyPair (kid, alg): FakeCryptoProvider::generateKeyPair     *)
GenerateKeyPair(kid, alg) ==
    /\ keys_' = keys_ \cup {kid}
    /\ UNCHANGED <<options_, builder, outToken, signRet, signedAs, tampered, verifier,
                   verifyRet, verifyCalls, verifyEnv>>
    /\ UNCHANGED <<routerVars, execVars, bootVars>>

(* jwt.removeKey (kid): FakeCryptoProvider::removeKey, always Ok           *)
RemoveKey(kid) ==
    /\ keys_' = keys_ \ {kid}
    /\ UNCHANGED <<options_, builder, outToken, signRet, signedAs, tampered, verifier,
                   verifyRet, verifyCalls, verifyEnv>>
    /\ UNCHANGED <<routerVars, execVars, bootVars>>

(* jwt.setOptions (options) *)
SetOptions(policy) ==
    /\ options_' = policy
    /\ UNCHANGED <<keys_, builder, outToken, signRet, signedAs, tampered, verifier,
                   verifyRet, verifyCalls, verifyEnv>>
    /\ UNCHANGED <<routerVars, execVars, bootVars>>

(* No key file in the binary directory and no ensureKeyPairInBinaryDir     *)
(* call yet.                                                               *)
BootInit ==
    /\ files = {}
    /\ bootCalls = <<>>
    /\ bootRet = "None"
    /\ bootEnv = [valid |-> FALSE]

(* Mutant of EnsurePlan: one file is enough to load.                       *)
EnsurePlan_EitherFile(present) ==
    IF present # {}
    THEN <<"loadPrivateKeyFromPemFile", "loadPublicKeyFromPemFile">>
    ELSE <<"generateKeyPair", "savePrivateKeyToPemFile", "savePublicKeyToPemFile">>

(* The provider calls ensureKeyPairInBinaryDir sets out to make when it    *)
(* finds the files present: both files there, load the private then the    *)
(* public one; else generate, save the private, save the public one.       *)
EnsurePlan(present) ==
    IF {"private", "public"} \subseteq present
    THEN <<"loadPrivateKeyFromPemFile", "loadPublicKeyFromPemFile">>
    ELSE <<"generateKeyPair", "savePrivateKeyToPemFile", "savePublicKeyToPemFile">>

(* jwt.ensureKeyPairInBinaryDir (kid, alg, privName, pubName) with a       *)
(* provider whose failAt-th call of this operation returns the error code  *)
(* (failAt = 0: none fails).  The calls are made in the order of the plan  *)
(* up to and including the first that fails; a load or generate that       *)
(* succeeded has put kid into the provider, a save that succeeded has      *)
(* written its file.                                                       *)
EnsureKeyPairInBinaryDir(kid, alg, failAt, code) ==
    LET plan    == EnsurePlan(files)
        fails   == failAt \in 1..Len(plan)
        made    == IF fails THEN SubSeq(plan, 1, failAt) ELSE plan
        good    == IF fails THEN SubSeq(plan, 1, failAt - 1) ELSE plan
        did(c)  == \E i \in 1..Len(good) : good[i] = c
    IN  /\ bootCalls' = made
        /\ bootRet' = IF fails THEN code ELSE "Ok"
        /\ bootEnv' = [valid |-> TRUE, files |-> files, failAt |-> failAt, code |-> code]
        /\ keys_' = IF did("loadPrivateKeyFromPemFile") \/ did("loadPublicKeyFromPemFile")
                       \/ did("generateKeyPair")
                    THEN keys_ \cup {kid} ELSE keys_
        /\ files' = files \cup (IF did("savePrivateKeyToPemFile") THEN {"private"} ELSE {})
                          \cup (IF did("savePublicKeyToPemFile") THEN {"public"} ELSE {})
        /\ UNCHANGED <<options_, builder, outToken, signRet, signedAs, tampered, verifier,
                       verifyRet, verifyCalls, verifyEnv>>
        /\ UNCHANGED <<routerVars, execVars>>

(* std::filesystem::remove of a key file, as the tests do before and       *)
(* after their calls                                                       *)
RemoveFile(name) ==
    /\ name \in files
    /\ files' = files \ {name}
    /\ UNCHANGED <<bootCalls, bootRet, bootEnv>>
    /\ UNCHANGED <<routerVars, execVars, jwtVars>>

(* A key file written from outside, as the test LoadsFilesWhenPresent does *)
CreateFile(name) ==
    /\ name \notin files
    /\ files' = files \cup {name}
    /\ UNCHANGED <<bootCalls, bootRet, bootEnv>>
    /\ UNCHANGED <<routerVars, execVars, jwtVars>>

(* builder.alg (alg) *)
BuilderAlg(alg) ==
    /\ builder' = [builder EXCEPT !.header = MapPut(@, K_alg, VStr(toAlgString(alg)))]
    /\ UNCHANGED <<keys_, options_, outToken, signRet, signedAs, tampered, verifier,
                   verifyRet, verifyCalls, verifyEnv>>
    /\ UNCHANGED <<routerVars, execVars, bootVars>>

(* builder.kid (kid) *)
BuilderKid(kid) ==
    /\ builder' = [builder EXCEPT !.header = MapPut(@, K_kid, VStr(kid))]
    /\ UNCHANGED <<keys_, options_, outToken, signRet, signedAs, tampered, verifier,
                   verifyRet, verifyCalls, verifyEnv>>
    /\ UNCHANGED <<routerVars, execVars, bootVars>>

(* builder.claim (name, value) *)
BuilderClaim(name, value) ==
    /\ builder' = [builder EXCEPT !.claims = MapPut(@, name, value)]
    /\ UNCHANGED <<keys_, options_, outToken, signRet, signedAs, tampered, verifier,
                   verifyRet, verifyCalls, verifyEnv>>
    /\ UNCHANGED <<routerVars, execVars, bootVars>>

(* builder.sign (outToken) with providers of which one call (toJson,       *)
(* base64UrlEncode or sign) returns the error code: sign has passed its    *)
(* three header tests and returns that error from where it arose.          *)
SignProviderError(code) ==
    /\ getStringValue(builder.header, K_alg) # Nullopt
    /\ fromAlgString(getStringValue(builder.header, K_alg)[1]) # Nullopt
    /\ getStringValue(builder.header, K_kid) # Nullopt
    /\ signRet' = code
    /\ UNCHANGED <<keys_, options_, builder, outToken, signedAs, tampered, verifier,
                   verifyRet, verifyCalls, verifyEnv>>
    /\ UNCHANGED <<routerVars, execVars, bootVars>>

(* Mutant of Sign: the token string is cleared when sign fails.            *)
Sign_ClearsOnError(headerOrder, claimsOrder) ==
    \E r \in {BuilderSign(builder.header, builder.claims, keys_, headerOrder, claimsOrder)} :
        /\ signRet' = r.code
        /\ IF r.code = "Ok"
           THEN /\ outToken' = r.token
                /\ signedAs' = [valid |-> TRUE, header |-> builder.header,
                                claims |-> builder.claims]
                /\ tampered' = FALSE
           ELSE /\ outToken' = <<>>
                /\ UNCHANGED <<signedAs, tampered>>
        /\ UNCHANGED <<keys_, options_, builder, verifier, verifyRet, verifyCalls, verifyEnv>>
        /\ UNCHANGED <<routerVars, execVars, bootVars>>

(* builder.sign (outToken): the token string is assigned only on the Ok    *)
(* path; the two toJson calls traverse their maps in headerOrder and       *)
(* claimsOrder.                                                            *)
Sign(headerOrder, claimsOrder) ==
    \E r \in {BuilderSign(builder.header, builder.claims, keys_, headerOrder, claimsOrder)} :
        /\ signRet' = r.code
        /\ IF r.code = "Ok"
           THEN /\ outToken' = r.token
                /\ signedAs' = [valid |-> TRUE, header |-> builder.header,
                                claims |-> builder.claims]
                /\ tampered' = FALSE
           ELSE UNCHANGED <<outToken, signedAs, tampered>>
        /\ UNCHANGED <<keys_, options_, builder, verifier, verifyRet, verifyCalls, verifyEnv>>
        /\ UNCHANGED <<routerVars, execVars, bootVars>>

(* The holder of a signed token replaces one byte of it, as the test       *)
(* VerifyFailsOnSignatureMismatch does with token.back().                  *)
Tamper(pos, byte) ==
    /\ signedAs.valid
    /\ ~tampered
    /\ pos \in 1..Len(outToken)
    /\ byte # outToken[pos]
    /\ outToken' = [outToken EXCEPT ![pos] = byte]
    /\ tampered' = TRUE
    /\ UNCHANGED <<keys_, options_, builder, signRet, signedAs, verifier, verifyRet,
                   verifyCalls, verifyEnv>>
    /\ UNCHANGED <<routerVars, execVars, bootVars>>

(* jwt.verify (outToken, verifier) at clock reading now, in a program     *)
(* built as build                                                          *)
Verify(now, build) ==
    \E r \in {JwtVerify(verifier, outToken, keys_, options_, now, build)} :
        /\ verifier' = r.v
        /\ verifyRet' = r.ret
        /\ verifyCalls' = r.calls
        /\ verifyEnv' = [valid |-> TRUE, keys |-> keys_, policy |-> options_, now |-> now,
                         build |-> build, signedAs |-> signedAs, tampered |-> tampered,
                         token |-> outToken, heldOk |-> verifier.ok]
        /\ UNCHANGED <<keys_, options_, builder, outToken, signRet, signedAs, tampered>>
        /\ UNCHANGED <<routerVars, execVars, bootVars>>

---------------------------------------------------------------------------
(* Specification Spec: literal routes, one typed route, ANY and specific   *)
(* methods.                                                                *)
P_root  == <<47>>   \* "/"
P_x     == <<47, 120>>   \* "/x"
P_xs    == <<47, 120, 47>>   \* "/x/"
P_xy    == <<47, 120, 47, 121>>   \* "/x/y"
P_x5    == <<47, 120, 47, 53>>   \* "/x/5"
P_xint  == <<47, 120, 47, 60, 97, 58, 105, 110, 116, 62>>   \* "/x/<a:int>"
P_xinty == <<47, 120, 47, 60, 97, 58, 105, 110, 116, 62, 47, 121>>   \* "/x/<a:int>/y"
P_x5y   == <<47, 120, 47, 53, 47, 121>>   \* "/x/5/y"
P_x5z   == <<47, 120, 47, 53, 47, 122>>   \* "/x/5/z"
P_z     == <<47, 122>>   \* "/z"

Patterns     == {P_root, P_x, P_xs, P_xy, P_xint, P_xinty}
Paths        == {P_root, P_x, P_xs, P_xy, P_x5, P_x5y, P_x5z, P_z}
AddMethods   == {"GET", "ANY"}
MatchMethods == {"GET", "POST", "ANY"}
Handlers     == {"h1"}
Middlewares  == {"mw1"}

Init == RouterInit /\ ExecInit /\ BootInit /\ JwtInit

Next ==
    \/ \E m \in AddMethods, p \in Patterns, h \in Handlers : Add(m, p, h)
    \/ \E ref \in DOMAIN registry, mw \in Middlewares : AddMiddleware(ref, mw)
    \/ \E m \in MatchMethods, path \in Paths : Match(m, path)
    \/ ClearCtx

Spec == Init /\ [][Next]_vars

---------------------------------------------------------------------------
(* Specification SpecTyped: one typed parameter of every type and literal  *)
(* siblings under /x, among them literals the validators accept.           *)
T_int    == <<47, 120, 47, 60, 97, 58, 105, 110, 116, 62>>   \* "/x/<a:int>"
T_b64    == <<47, 120, 47, 60, 118, 58, 98, 97, 115, 101, 54, 52, 105, 100, 62>>   \* "/x/<v:base64id>"
T_string == <<47, 120, 47, 60, 98, 58, 115, 116, 114, 105, 110, 103, 62>>   \* "/x/<b:string>"
T_uuid   == <<47, 120, 47, 60, 118, 58, 117, 117, 105, 100, 62>>   \* "/x/<v:uuid>"
T_float  == <<47, 120, 47, 60, 118, 58, 102, 108, 111, 97, 116, 62>>   \* "/x/<v:float>"
T_gen    == <<47, 120, 47, 60, 118, 62>>   \* "/x/<v>"
L_5      == <<47, 120, 47, 53>>   \* "/x/5"
L_1p5    == <<47, 120, 47, 49, 46, 53>>   \* "/x/1.5"
L_new    == <<47, 120, 47, 110, 101, 119>>   \* "/x/new"
L_uuid   == <<47, 120, 47, 49, 50, 51, 101, 52, 53, 54, 55, 45, 101, 56, 57, 98, 45, 49, 50, 100, 51, 45, 97, 52, 53, 54, 45, 52, 50, 54, 54, 49, 52, 49, 55, 52, 48, 48, 48>>   \* "/x/123e4567-e89b-12d3-a456-426614174000"
L_b64    == <<47, 120, 47, 65, 98, 67, 100, 69, 102, 71, 104, 73, 106, 75, 108, 77, 110, 79, 112, 81, 114, 83, 116, 85, 118>>   \* "/x/AbCdEfGhIjKlMnOpQrStUv"
L_neg    == <<47, 120, 47, 45, 52, 50>>   \* "/x/-42"
L_plus   == <<47, 120, 47, 43>>   \* "/x/+"
L_12a    == <<47, 120, 47, 49, 50, 97>>   \* "/x/12a"

TypedPatterns   == {T_int, T_b64, T_string, T_uuid, T_float, T_gen}
LiteralPatterns == {L_5, L_1p5, L_new, L_uuid, L_b64}
TypedPaths      == LiteralPatterns \cup {L_neg, L_plus, L_12a}
TypedMethods    == {"GET"}

NextTyped ==
    \/ \E m \in TypedMethods, p \in TypedPatterns \cup LiteralPatterns, h \in Handlers :
           Add(m, p, h)
    \/ \E ref \in DOMAIN registry, mw \in Middlewares : AddMiddleware(ref, mw)
    \/ \E m \in TypedMethods, path \in TypedPaths : Match(m, path)
    \/ ClearCtx

SpecTyped == Init /\ [][NextTyped]_vars

---------------------------------------------------------------------------
(* Specification SpecExec: routes with global and per-route middlewares,   *)
(* matched and executed; each middleware decides how often it invokes      *)
(* next.                                                                   *)
ExecPatterns   == {P_x}
ExecPaths      == {P_x}
ExecMethods    == {"GET"}
GlobalMws      == {"g1", "g2"}
RouteMws       == {"mw1", "mw2"}

NextExec ==
    \/ \E m \in ExecMethods, p \in ExecPatterns, h \in Handlers : Add(m, p, h)
    \/ \E ref \in DOMAIN registry, mw \in RouteMws : AddMiddleware(ref, mw)
    \/ \E mw \in GlobalMws : AddGlobalMiddleware(mw)
    \/ \E m \in ExecMethods, path \in ExecPaths : Match(m, path)
    \/ Execute
    \/ InvokeNext
    \/ Return

SpecExec == Init /\ [][NextExec]_vars

---------------------------------------------------------------------------
(* Signing and verifying: key management, policies, claim maps.            *)

Kid1    == <<107, 49>>   \* "k1"
Kid2    == <<107, 50>>   \* "k2"
KidSemi == <<107, 59, 50>>   \* "k;2"
Kids    == {Kid1, KidSemi}

K_sub  == <<115, 117, 98>>   \* "sub"
K_r    == <<114>>   \* "r"
K_neg  == <<110, 101, 103>>   \* "neg"
K_nul  == <<110, 117, 108>>   \* "nul"
K_ok   == <<111, 107>>   \* "ok"
K_s    == <<115>>   \* "s"
K_ab   == <<97, 124, 98>>   \* "a|b"
S_u1   == <<117, 59, 49>>   \* "u;1"

Nows == {100}

CM_empty == EmptyMap
CM_exp   == MapPut(EmptyMap, K_exp, VInt(200))
CM_old   == MapPut(EmptyMap, K_exp, VInt(50))
CM_semi  == MapPut(CM_exp, K_sub, VStr(S_u1))
CM_pipe  == MapPut(CM_exp, K_ab, VBool(TRUE))
CM_lossy == MapPut(CM_exp, K_r, VDouble(1234567, 0 - 6))
CM_mixed ==
    MapPut(MapPut(MapPut(MapPut(MapPut(MapPut(EmptyMap,
        K_exp, VDouble(200, 0)), K_r, VDouble(15, 0 - 1)), K_neg, VInt(0 - 7)),
        K_nul, VNull), K_ok, VBool(FALSE)), K_s, VStr(K_ab))

ClaimMaps == {CM_empty, CM_exp, CM_old, CM_semi, CM_pipe, CM_lossy, CM_mixed}

P_Lenient == [DefaultPolicy EXCEPT !.requireExp = FALSE, !.allowedAlgs = <<HS256, EdDSA>>]

Policies == {DefaultPolicy, P_Lenient}

Builders == {Built(alg, kid, claims) : alg \in JwtAlgs, kid \in Kids, claims \in ClaimMaps}

InitJwt == RouterInit /\ ExecInit /\ BootInit /\ EngineInit /\ builder \in Builders

NextJwt ==
    \/ \E kid \in Kids : GenerateKeyPair(kid, HS256)
    \/ \E policy \in Policies : SetOptions(policy)
    \/ \E order \in MapOrders : Sign(order, order)
    \/ \E now \in Nows : Verify(now, WrapMinBuild)

SpecJwt == InitJwt /\ [][NextJwt]_vars

---------------------------------------------------------------------------
(* Key removal: keys come and go while a signed token is verified.         *)

KeyKids     == {Kid1, Kid2}
KeyAlgs     == {HS256, RS256}
KeyMaps     == {CM_exp, CM_mixed}
KeyBuilders == {Built(alg, kid, claims) : alg \in KeyAlgs, kid \in KeyKids, claims \in KeyMaps}

InitKeys == RouterInit /\ ExecInit /\ BootInit /\ EngineInit /\ builder \in KeyBuilders

NextKeys ==
    \/ \E kid \in KeyKids : GenerateKeyPair(kid, HS256)
    \/ \E kid \in KeyKids : RemoveKey(kid)
    \/ \E policy \in Policies : SetOptions(policy)
    \/ \E order \in MapOrders : Sign(order, order)
    \/ \E now \in Nows : Verify(now, WrapMinBuild)

SpecKeys == InitKeys /\ [][NextKeys]_vars

---------------------------------------------------------------------------
(* Tampering: one byte of a signed token is replaced before verification.  *)

TamperAlgs     == {HS256, EdDSA}
TamperBuilders == {Built(alg, Kid1, CM_exp) : alg \in TamperAlgs}

(* '.', the digits, 'A'..'F', 'G', '_' and 'a'..'f' *)
TamperBytes == {Dot, 71, Under} \cup (48..57) \cup (65..70) \cup (97..102)

(* The state after jwt.generateKeyPair ("k1", ...) and a successful         *)
(* builder.sign (outToken) on the engine with its default options.         *)
InitTamper ==
    /\ RouterInit /\ ExecInit /\ BootInit
    /\ keys_ = {Kid1}
    /\ options_ = DefaultPolicy
    /\ builder \in TamperBuilders
    /\ outToken \in {BuilderSign(builder.header, builder.claims, {Kid1}, order, order).token :
                         order \in MapOrders}
    /\ signRet = "Ok"
    /\ signedAs = [valid |-> TRUE, header |-> builder.header, claims |-> builder.claims]
    /\ tampered = FALSE
    /\ verifier = FreshVerifier
    /\ verifyRet = "None"
    /\ verifyCalls = <<>>
    /\ verifyEnv = [valid |-> FALSE]

NextTamper ==
    \/ \E pos \in 1..Len(outToken), byte \in TamperBytes : Tamper(pos, byte)
    \/ \E now \in Nows : Verify(now, WrapMinBuild)

SpecTamper == InitTamper /\ [][NextTamper]_vars

---------------------------------------------------------------------------
(* Specification SpecFormat: verify on every short string over '.', '4'    *)
(* and 'A', whatever its shape; nothing has been signed.                   *)
MaxTokenLen == 4
FormatBytes == {Dot, 52, 65}
RawTokens   == UNION {[1..n -> FormatBytes] : n \in 0..MaxTokenLen}

InitFormat ==
    /\ RouterInit /\ ExecInit /\ BootInit
    /\ keys_ = {}
    /\ options_ = DefaultPolicy
    /\ builder = FreshBuilder
    /\ outToken \in RawTokens
    /\ signRet = "None"
    /\ signedAs = [valid |-> FALSE]
    /\ tampered = FALSE
    /\ verifier = FreshVerifier
    /\ verifyRet = "None"
    /\ verifyCalls = <<>>
    /\ verifyEnv = [valid |-> FALSE]

NextFormat ==
    \/ \E kid \in {Kid1} : GenerateKeyPair(kid, HS256)
    \/ \E now \in Nows : Verify(now, WrapMinBuild)

SpecFormat == InitFormat /\ [][NextFormat]_vars

---------------------------------------------------------------------------
(* Specification SpecSign: a builder set up call by call, among them an    *)
(* algorithm outside the enumeration and no kid at all; keys come and go;  *)
(* the caller's string holds text of its own before the first sign.        *)
SignAlgs   == {RS256, 9}
SignKids   == {Kid1, Kid2}
S_prev     == <<112, 114, 101, 118>>   \* "prev"
PrevTokens == {<<>>, S_prev}
ProviderErrors == {"CryptoError", "JsonError"}

InitSign ==
    /\ RouterInit /\ ExecInit /\ BootInit
    /\ keys_ = {}
    /\ options_ = DefaultPolicy
    /\ builder = FreshBuilder
    /\ outToken \in PrevTokens
    /\ signRet = "None"
    /\ signedAs = [valid |-> FALSE]
    /\ tampered = FALSE
    /\ verifier = FreshVerifier
    /\ verifyRet = "None"
    /\ verifyCalls = <<>>
    /\ verifyEnv = [valid |-> FALSE]

NextSign ==
    \/ \E alg \in SignAlgs : BuilderAlg(alg)
    \/ \E kid \in SignKids : BuilderKid(kid)
    \/ BuilderClaim(K_exp, VInt(200))
    \/ \E kid \in SignKids : GenerateKeyPair(kid, RS256)
    \/ \E kid \in SignKids : RemoveKey(kid)
    \/ \E order \in MapOrders : Sign(order, order)
    \/ \E code \in ProviderErrors : SignProviderError(code)

SpecSign == InitSign /\ [][NextSign]_vars

---------------------------------------------------------------------------
(* Specification SpecPolicy: engines constructed with each of a family of  *)
(* policies, tokens whose exp, nbf, iss and aud claims are absent, of      *)
(* every alternative of ClaimValue, around the clock reading, and at the   *)
(* ends of int64_t; verify runs in every build.                            *)
S_me    == <<109, 101>>   \* "me"
S_other == <<111, 116, 104, 101, 114>>   \* "other"
S_200   == <<50, 48, 48>>   \* "200"

Absent == [t |-> "absent"]

WithClaim(claims, name, value) ==
    IF value = Absent THEN claims ELSE MapPut(claims, name, value)

ExpValues ==
    {Absent, VInt(98), VInt(99), VInt(100), VInt(101), VStr(S_200), VBool(TRUE), VNull,
     VDouble(15, 0 - 1), VDouble(100, 0), VDouble(99, 0), VInt64(I64Max), VDouble(1, 19)}

NbfValues ==
    {Absent, VInt(100), VInt(105), VInt(110), VInt(111), VStr(S_200), VBool(TRUE),
     VDouble(1055, 0 - 1), VDouble(105, 0), VDouble(111, 0), VInt64(I64Min), VDouble(1, 19)}

NameValues == {Absent, VStr(S_me), VStr(S_other), VInt(7)}

PolicyClaimMaps ==
    {WithClaim(EmptyMap, K_exp, e) : e \in ExpValues}
    \cup {WithClaim(WithClaim(EmptyMap, K_exp, e), K_nbf, n) :
              e \in {Absent, VInt(200)}, n \in NbfValues}
    \cup {WithClaim(WithClaim(CM_exp, K_iss, i), K_aud, a) :
              i \in NameValues, a \in NameValues}

PolicyBuilders == {Built(HS256, Kid1, claims) : claims \in PolicyClaimMaps}

Leeways == {0, 2, 10}

PolicyPolicies ==
    {[DefaultPolicy EXCEPT !.requireExp = re, !.requireNbf = rn, !.leewaySeconds = l] :
         re \in BOOLEAN, rn \in BOOLEAN, l \in Leeways}
    \cup {[DefaultPolicy EXCEPT !.expectedIss = i, !.expectedAud = a] :
              i \in {Nullopt, Some(S_me)}, a \in {Nullopt, Some(S_me)}}

InitPolicy ==
    /\ RouterInit /\ ExecInit /\ BootInit
    /\ keys_ = {}
    /\ options_ \in PolicyPolicies
    /\ builder \in PolicyBuilders
    /\ outToken = <<>>
    /\ signRet = "None"
    /\ signedAs = [valid |-> FALSE]
    /\ tampered = FALSE
    /\ verifier = FreshVerifier
    /\ verifyRet = "None"
    /\ verifyCalls = <<>>
    /\ verifyEnv = [valid |-> FALSE]

NextPolicy ==
    \/ GenerateKeyPair(Kid1, HS256)
    \/ Sign("asc", "asc")
    \/ \E now \in Nows, build \in Builds : Verify(now, build)

SpecPolicy == InitPolicy /\ [][NextPolicy]_vars

---------------------------------------------------------------------------
(* Specification SpecBoot: the start-up helper with none, one or both key  *)
(* files present, every provider call of it failing in turn.               *)
BootKids   == {Kid1, Kid2}
FileNames  == {"private", "public"}
FailAts    == 0..3
BootErrors == {"IOError", "CryptoError"}

InitBoot ==
    /\ RouterInit /\ ExecInit
    /\ EngineInit
    /\ builder = FreshBuilder
    /\ files \in SUBSET FileNames
    /\ bootCalls = <<>>
    /\ bootRet = "None"
    /\ bootEnv = [valid |-> FALSE]

NextBoot ==
    \/ \E kid \in BootKids, failAt \in FailAts, code \in BootErrors :
           EnsureKeyPairInBinaryDir(kid, HS256, failAt, code)
    \/ \E name \in FileNames : RemoveFile(name)
    \/ \E name \in FileNames : CreateFile(name)
    \/ \E kid \in BootKids : RemoveKey(kid)

SpecBoot == InitBoot /\ [][NextBoot]_vars

---------------------------------------------------------------------------
(* Helpers of the properties                                               *)

IsLiteralOnly(pattern) ==
    \A i \in 1..Len(splitPath(pattern)) : ~parseSegment(splitPath(pattern)[i]).is_param

(* The address of the node a traversal of segments ends at (literal child  *)
(* first, else the first accepting typed parameter), <<"none">> when the   *)
(* traversal fails.                                                        *)
RECURSIVE TerminalAddr(_, _, _)
TerminalAddr(node, segments, addr) ==
    IF segments = <<>> THEN addr
    ELSE IF Head(segments) \in DOMAIN node.literals
    THEN TerminalAddr(node.literals[Head(segments)], Tail(segments),
                      Append(addr, <<"lit", Head(segments)>>))
    ELSE LET hits == {i \in 1..Len(node.typed_params) :
                        Validate(node.typed_params[i].type, Head(segments))}
         IN  IF hits = {} THEN <<"none">>
             ELSE LET i == CHOOSE k \in hits : \A j \in hits : k <= j
                  IN  TerminalAddr(node.typed_params[i].next, Tail(segments),
                                   Append(addr, <<"par", node.typed_params[i].type>>))

SameRoute(route, entry) ==
    /\ route.found
    /\ route.pattern = entry.pattern
    /\ route.method = entry.method
    /\ route.handler = entry.handler

---------------------------------------------------------------------------
(* C1: after add(m, p, h) with p made only of literal segments, and after  *)
(* further add/addMiddleware calls that do not register m again at the     *)
(* same normalized pattern, match(m, p, ctx) returns the route that add    *)
(* installed (method m, pattern text p, handler h) and makes no setParam   *)
(* call, so the context stays empty.                                       *)
C1_LiteralRouteMatched ==
    matchDone =>
        LET m   == matchArgs[1]
            p   == matchArgs[2]
            key == <<NodeAddr(splitPath(p)), m>>
        IN  (IsLiteralOnly(p) /\ key \in DOMAIN registry /\ registry[key].pattern = p)
            => /\ SameRoute(matchRes, registry[key])
               /\ matchRes.method = m
               /\ matchRes.pattern = p
               /\ matchCalls = <<>>
               /\ ctx = EmptyMap

(* A literal route registered first, another registration after it, then   *)
(* matched by its own pattern text.                                        *)
C1_Witness ==
    /\ matchDone
    /\ matchArgs = <<"GET", P_xs>>
    /\ <<NodeAddr(splitPath(P_xs)), "GET">> \in DOMAIN registry
    /\ registry[<<NodeAddr(splitPath(P_xs)), "GET">>].pattern = P_xs
    /\ registry[<<NodeAddr(splitPath(P_xs)), "GET">>].seq = 1
    /\ <<NodeAddr(splitPath(P_xs)), "ANY">> \in DOMAIN registry
    /\ matchRes.found /\ matchRes.pattern = P_xs /\ matchRes.method = "GET"

---------------------------------------------------------------------------
(* C2: when a typed route /x/<v:T> and a literal route /x/L are both       *)
(* registered for a method, in either order, match of /x/L with that       *)
(* method returns the literal route and captures nothing, also when T's    *)
(* validator accepts L.                                                    *)
XAddr(edge) == << <<"lit", <<120>>>>, edge >>

C2_LiteralBeatsTyped ==
    matchDone =>
        LET m    == matchArgs[1]
            path == matchArgs[2]
            lit  == <<NodeAddr(splitPath(path)), m>>
        IN  ( /\ path \in LiteralPatterns
              /\ lit \in DOMAIN registry
              /\ \E T \in ParamTypes : <<XAddr(<<"par", T>>), m>> \in DOMAIN registry )
            => /\ SameRoute(matchRes, registry[lit])
               /\ matchRes.pattern = path
               /\ matchCalls = <<>>
               /\ ctx = EmptyMap

(* The uuid route registered first, then a literal that is a valid uuid:   *)
(* the literal is returned.                                                *)
C2_Witness ==
    /\ matchDone
    /\ matchArgs = <<"GET", L_uuid>>
    /\ <<XAddr(<<"par", UUID>>), "GET">> \in DOMAIN registry
    /\ registry[<<XAddr(<<"par", UUID>>), "GET">>].seq = 1
    /\ <<NodeAddr(splitPath(L_uuid)), "GET">> \in DOMAIN registry
    /\ matchRes.found /\ matchRes.pattern = L_uuid

---------------------------------------------------------------------------
(* C3: with /x/<a:int> and /x/<b:string> registered for the same method in *)
(* either order (and no literal child or base64id sibling taking the       *)
(* segment), match of /x/s returns the int route with a = s when the int   *)
(* validator accepts s, and the string route with b = s for every other    *)
(* non-empty s.                                                            *)
C3_IntBeforeString ==
    matchDone =>
        LET m    == matchArgs[1]
            segs == splitPath(matchArgs[2])
            ik   == <<XAddr(<<"par", INT>>), m>>
            sk   == <<XAddr(<<"par", STRING_>>), m>>
        IN  ( /\ ik \in DOMAIN registry
              /\ sk \in DOMAIN registry
              /\ Len(segs) = 2 /\ segs[1] = <<120>> /\ segs[2] # <<>>
              /\ \A k \in DOMAIN registry : k[1] # XAddr(<<"lit", segs[2]>>)
              /\ \A k \in DOMAIN registry :
                     k[1] = XAddr(<<"par", BASE64ID>>) => ~validateBase64IdParam(segs[2]) )
            => IF validateIntParam(segs[2])
               THEN /\ SameRoute(matchRes, registry[ik])
                    /\ matchRes.pattern = T_int
                    /\ matchCalls = << <<<<97>>, segs[2]>> >>
               ELSE /\ SameRoute(matchRes, registry[sk])
                    /\ matchRes.pattern = T_string
                    /\ matchCalls = << <<<<98>>, segs[2]>> >>

(* The string route registered before the int route; -42 goes to int.      *)
C3_Witness ==
    /\ matchDone
    /\ matchArgs = <<"GET", L_neg>>
    /\ <<XAddr(<<"par", STRING_>>), "GET">> \in DOMAIN registry
    /\ <<XAddr(<<"par", INT>>), "GET">> \in DOMAIN registry
    /\ registry[<<XAddr(<<"par", STRING_>>), "GET">>].seq
         < registry[<<XAddr(<<"par", INT>>), "GET">>].seq
    /\ matchRes.found /\ matchRes.pattern = T_int
    /\ ctx = (<<97>> :> <<45, 52, 50>>)

---------------------------------------------------------------------------
(* C4: at the terminal node of a matched path, match(m, ...) returns the   *)
(* route registered for exactly m when there is one, else the route        *)
(* registered for ANY when there is one, else no route, whatever the order *)
(* in which the ANY route and the specific route were added.               *)
C4_SpecificThenAny ==
    matchDone =>
        LET m    == matchArgs[1]
            addr == TerminalAddr(root, splitPath(matchArgs[2]), <<>>)
        IN  IF addr = <<"none">> THEN ~matchRes.found
            ELSE IF <<addr, m>> \in DOMAIN registry
                 THEN SameRoute(matchRes, registry[<<addr, m>>]) /\ matchRes.method = m
            ELSE IF <<addr, "ANY">> \in DOMAIN registry
                 THEN SameRoute(matchRes, registry[<<addr, "ANY">>]) /\ matchRes.method = "ANY"
            ELSE ~matchRes.found

(* ANY registered after the specific method at the same node: the specific *)
(* method still gets its own route.                                        *)
C4_Witness ==
    LET addr == NodeAddr(splitPath(P_x)) IN
    /\ matchDone
    /\ matchArgs = <<"GET", P_x>>
    /\ <<addr, "GET">> \in DOMAIN registry
    /\ <<addr, "ANY">> \in DOMAIN registry
    /\ registry[<<addr, "ANY">>].seq > registry[<<addr, "GET">>].seq
    /\ matchRes.found /\ matchRes.method = "GET"

---------------------------------------------------------------------------
(* C5: whenever match returns no route, the context holds no captured      *)
(* parameter afterwards.                                                   *)
C5_NoCapturesOnNoMatch ==
    (matchDone /\ ~matchRes.found) => ctx = EmptyMap

---------------------------------------------------------------------------
(* C6: when every middleware invokes next exactly once, execute runs the   *)
(* global middlewares in registration order, then the middlewares of the   *)
(* route in the order they were attached, then the handler, each exactly   *)
(* once; while no middleware has invoked next twice, the stages started so *)
(* far are a prefix of that sequence, so no per-route middleware or        *)
(* handler starts before all global middlewares have started.              *)
ExpectedStages ==
    LET key == <<NodeAddr(splitPath(matchRes.pattern)), matchRes.method>>
    IN  [i \in 1..Len(globalMws) |-> <<"global", globalMws[i]>>]
        \o [i \in 1..Len(registry[key].attached) |-> <<"route", registry[key].attached[i]>>]
        \o << <<"handler", registry[key].handler>> >>

StartedStages == [i \in 1..Len(trace) |-> <<trace[i].kind, trace[i].id>>]

C6_ExecutionOrder ==
    (execState # "idle" /\ extraNexts = 0) =>
        /\ Len(StartedStages) <= Len(ExpectedStages)
        /\ StartedStages = SubSeq(ExpectedStages, 1, Len(StartedStages))
        /\ (execState = "done" /\ \A k \in 1..(Len(chain) - 1) : nextCalls[k] = 1)
               => StartedStages = ExpectedStages

(* Two global and two per-route middlewares, registered in the order g2,   *)
(* g1 and mw2, mw1, all invoking next once: five stages have run.          *)
C6_Witness ==
    /\ execState = "done"
    /\ \A k \in 1..(Len(chain) - 1) : nextCalls[k] = 1
    /\ globalMws = <<"g2", "g1">>
    /\ matchRes.middlewares = <<"mw2", "mw1">>
    /\ StartedStages = << <<"global", "g2">>, <<"global", "g1">>, <<"route", "mw2">>,
                          <<"route", "mw1">>, <<"handler", "h1">> >>

---------------------------------------------------------------------------
(* C7: during execute the chain advances only when a middleware invokes    *)
(* next: stage k + 1 has started exactly as often as stage k invoked next; *)
(* if stage k has not invoked next no later stage has started; the handler *)
(* has started only if every middleware before it invoked next.            *)
StartsOf(i) == Cardinality({n \in 1..Len(trace) : trace[n].idx = i})

C7_AdvanceOnlyOnNext ==
    execState # "idle" =>
        /\ \A k \in 1..(Len(chain) - 1) : StartsOf(k + 1) = nextCalls[k]
        /\ \A k \in 1..(Len(chain) - 1) :
               nextCalls[k] = 0 => \A n \in 1..Len(trace) : trace[n].idx <= k
        /\ (\E n \in 1..Len(trace) : trace[n].kind = "handler")
               => \A k \in 1..(Len(chain) - 1) : nextCalls[k] >= 1

(* The second of four stages returned without invoking next: execute is    *)
(* over and neither the per-route middleware nor the handler has run.      *)
C7_Witness ==
    /\ execState = "done"
    /\ Len(chain) = 4
    /\ nextCalls = <<1, 0, 0, 0>>
    /\ Len(trace) = 2
    /\ \A n \in 1..Len(trace) : trace[n].kind = "global"

---------------------------------------------------------------------------
(* What the verified token was signed from.                                *)
SignedAlg == fromAlgString(getStringValue(verifyEnv.signedAs.header, K_alg)[1])[1]
SignedKid == getStringValue(verifyEnv.signedAs.header, K_kid)[1]

(* The last verify call was given a token exactly as sign emitted it.      *)
VerifiedAsSigned == verifyEnv.valid /\ verifyEnv.signedAs.valid /\ ~verifyEnv.tampered

Has(str, ch) == \E i \in 1..Len(str) : str[i] = ch

(* Claim maps the item format of the JSON provider carries unchanged: no   *)
(* ';' or '|' in a key, no ';' in a string value, doubles of at most six   *)
(* significant digits.                                                     *)
Reversible(claims) ==
    \A k \in DOMAIN claims :
        /\ ~Has(k, Semi) /\ ~Has(k, Pipe)
        /\ claims[k].t = "s" => ~Has(claims[k].v, Semi)
        /\ claims[k].t = "d" => Len(DigitsOf(Abs(claims[k].m))) <= 6

(* C8 as stated: for any claim map C, any of the four algorithms and any   *)
(* kid the provider knows, the token sign emits verifies on the same       *)
(* engine: verify returns Ok, ok() is true and the verifier's claims equal *)
(* C.                                                                      *)
C8_RoundTripAnyClaims ==
    (VerifiedAsSigned /\ SignedKid \in verifyEnv.keys) =>
        /\ verifyRet = "Ok"
        /\ verifier.ok
        /\ verifier.claims = verifyEnv.signedAs.claims

(* C8 as amended: the same round trip for the claim maps the JSON provider *)
(* carries unchanged, a kid without ';', an algorithm the policy allows    *)
(* and claims that satisfy the policy at verification time.                *)
C8_RoundTrip ==
    (/\ VerifiedAsSigned
     /\ SignedKid \in verifyEnv.keys
     /\ ~Has(SignedKid, Semi)
     /\ Reversible(verifyEnv.signedAs.claims)
     /\ containsAlg(verifyEnv.policy.allowedAlgs, SignedAlg)
     /\ validatePolicy(verifyEnv.policy, verifyEnv.signedAs.claims, verifyEnv.now,
                       verifyEnv.build) = "Ok")
    => /\ verifyRet = "Ok"
       /\ verifier.ok
       /\ verifier.error = "Ok"
       /\ verifier.claims = verifyEnv.signedAs.claims

(* An EdDSA token carrying every kind of claim value verified under the    *)
(* policy that allows HS256 and EdDSA only.                                *)
C8_Witness ==
    /\ VerifiedAsSigned
    /\ SignedAlg = EdDSA
    /\ SignedKid = Kid1
    /\ verifyEnv.policy = P_Lenient
    /\ verifyEnv.signedAs.claims = CM_mixed
    /\ verifyRet = "Ok"
    /\ verifier.ok
    /\ verifier.claims = CM_mixed

---------------------------------------------------------------------------
(* C9: whichever single byte of a token emitted by sign is replaced by a   *)
(* different byte, verify fails with InvalidFormat, InvalidBase64Url,      *)
(* InvalidJson, UnsupportedAlg, KeyNotFound or SignatureMismatch; the      *)
(* tampered token is never accepted.                                       *)
C9_TamperedNeverAccepted ==
    (verifyEnv.valid /\ verifyEnv.signedAs.valid /\ verifyEnv.tampered) =>
        /\ verifyRet \in {"InvalidFormat", "InvalidBase64Url", "InvalidJson",
                          "UnsupportedAlg", "KeyNotFound", "SignatureMismatch"}
        /\ ~verifier.ok

---------------------------------------------------------------------------
(* C10: the engine caches no key.  Whenever verify is given a token that   *)
(* sign emitted under kid K (unaltered, algorithm allowed by the policy)   *)
(* while the provider does not hold K, because removeKey (K) took it away  *)
(* and nothing re-introduced it, verify returns KeyNotFound and ok() is    *)
(* false, also when the same token verified before the removal.            *)
C10_RemovedKeyNotFound ==
    (/\ VerifiedAsSigned
     /\ SignedKid \notin verifyEnv.keys
     /\ containsAlg(verifyEnv.policy.allowedAlgs, SignedAlg))
    => /\ verifyRet = "KeyNotFound"
       /\ ~verifier.ok
       /\ verifier.error = "KeyNotFound"

(* The token was signed under k1; verify ran after k1 was removed, with k2 *)
(* still held by the provider.                                             *)
C10_Witness ==
    /\ VerifiedAsSigned
    /\ SignedKid = Kid1
    /\ verifyEnv.keys = {Kid2}
    /\ keys_ = {Kid2}
    /\ verifier.rawToken = outToken
    /\ verifyRet = "KeyNotFound"
    /\ ~verifier.ok

---------------------------------------------------------------------------
(* The parts of a token between its dots, by count: the number of dots and *)
(* whether a part between two dots, before the first or after the last is  *)
(* empty.                                                                  *)
DotCount(token) == Cardinality({i \in 1..Len(token) : token[i] = Dot})

HasEmptyPart(token) ==
    \/ token = <<>>
    \/ token[1] = Dot
    \/ token[Len(token)] = Dot
    \/ \E i \in 1..(Len(token) - 1) : token[i] = Dot /\ token[i + 1] = Dot

ThreeNonEmptyParts(token) == DotCount(token) = 2 /\ ~HasEmptyPart(token)

(* C11: verify returns InvalidFormat, before any provider call, for every  *)
(* token that does not consist of exactly three non-empty parts separated  *)
(* by '.', tokens with two dots and an empty part included.                *)
C11_MalformedIsInvalidFormat ==
    (verifyEnv.valid /\ ~ThreeNonEmptyParts(verifier.rawToken))
        => (verifyRet = "InvalidFormat" /\ verifyCalls = <<>>)

---------------------------------------------------------------------------
(* What Jwt::verify hands to the crypto provider for a token with exactly  *)
(* two dots: the text before the second dot and the decoded third part.    *)
SecondDotOf(token) == Find(token, Dot, Find(token, Dot, 1) + 1)

SigningInputOf(token) == SubSeq(token, 1, SecondDotOf(token) - 1)

SignatureBytesOf(token) ==
    base64UrlDecode(SubSeq(token, SecondDotOf(token) + 1, Len(token))).data

(* C12: after every verify call ok() is true exactly when the returned     *)
(* code is Ok, the returned code equals error(), and ok() implies that the *)
(* provider's verify accepts the signature for the header's alg and kid    *)
(* and that validatePolicy returns Ok for the parsed claims under the      *)
(* policy the engine had at the call.                                      *)
C12_OkIffOkCode ==
    verifyEnv.valid =>
        /\ verifier.ok <=> (verifyRet = "Ok")
        /\ verifyRet = verifier.error
        /\ verifier.ok =>
              /\ getStringValue(verifier.header, K_alg) # Nullopt
              /\ fromAlgString(getStringValue(verifier.header, K_alg)[1]) # Nullopt
              /\ getStringValue(verifier.header, K_kid) # Nullopt
              /\ CryptoVerify(verifyEnv.keys,
                              fromAlgString(getStringValue(verifier.header, K_alg)[1])[1],
                              getStringValue(verifier.header, K_kid)[1],
                              SigningInputOf(verifier.rawToken),
                              SignatureBytesOf(verifier.rawToken)) = "Ok"
              /\ validatePolicy(verifyEnv.policy, verifier.claims, verifyEnv.now,
                                verifyEnv.build) = "Ok"

(* A verify call that succeeded, and the engine's state still the one it   *)
(* ran in.                                                                 *)
C12_Witness ==
    /\ verifyEnv.valid
    /\ verifier.ok
    /\ verifyRet = "Ok"
    /\ verifier.error = "Ok"
    /\ verifier.rawToken = outToken
    /\ verifyCalls[Len(verifyCalls)] = "verify"

(* A verify call that failed after the signature was accepted.             *)
C12_WitnessFailure ==
    /\ verifyEnv.valid
    /\ ~verifier.ok
    /\ verifyRet = "PolicyViolation"
    /\ verifier.error = "PolicyViolation"

---------------------------------------------------------------------------
(* C13: a sign call that returns an error leaves outToken as it was; the   *)
(* string is written only by a sign call that returns Ok.  Sign is the     *)
(* only operation that touches the string.                                 *)
C13_OutTokenWrittenOnlyOnOk == [][outToken' # outToken => signRet' = "Ok"]_vars

(* After a failed sign the string still holds the token of an earlier      *)
(* successful sign.                                                        *)
C13_Witness ==
    /\ signRet \notin {"None", "Ok"}
    /\ signedAs.valid
    /\ Len(outToken) > Len(S_prev)
    /\ BuilderSign(builder.header, builder.claims, keys_, "asc", "asc").code = signRet

(* After a failed first sign the string still holds the caller's text.     *)
C13_WitnessPrev ==
    /\ signRet = "UnsupportedAlg"
    /\ outToken = S_prev

---------------------------------------------------------------------------
(* The verify call got as far as the algorithm test: both JSON texts were  *)
(* parsed and the header names one of the four algorithms.                 *)
HeaderAlgKnown ==
    /\ verifyEnv.valid
    /\ Len(verifyCalls) >= 5
    /\ parseMap(verifier.rawPayloadJson).code = "Ok"
    /\ getStringValue(verifier.header, K_alg) # Nullopt
    /\ fromAlgString(getStringValue(verifier.header, K_alg)[1]) # Nullopt

HeaderAlg == fromAlgString(getStringValue(verifier.header, K_alg)[1])[1]

AlgListed(allowed, alg) == \E i \in 1..Len(allowed) : allowed[i] = alg

(* C14: when policy.allowedAlgs is non-empty and does not list the alg of  *)
(* the token header, verify returns UnsupportedAlg and the provider's      *)
(* verify is never called, valid signature or not; when allowedAlgs is     *)
(* empty each of the four algorithms passes the test.                      *)
C14_AllowedAlgs ==
    /\ (/\ HeaderAlgKnown
        /\ verifyEnv.policy.allowedAlgs # <<>>
        /\ ~AlgListed(verifyEnv.policy.allowedAlgs, HeaderAlg))
       => /\ verifyRet = "UnsupportedAlg"
          /\ ~verifier.ok
          /\ \A i \in 1..Len(verifyCalls) : verifyCalls[i] # "verify"
    /\ (HeaderAlgKnown /\ verifyEnv.policy.allowedAlgs = <<>>)
       => verifyRet # "UnsupportedAlg"
    /\ \A alg \in JwtAlgs : containsAlg(<<>>, alg)

(* An unaltered RS256 token whose key the provider holds, verified under   *)
(* a policy that lists only HS256 and EdDSA.                               *)
C14_Witness ==
    /\ VerifiedAsSigned
    /\ HeaderAlgKnown
    /\ HeaderAlg = RS256
    /\ SignedKid \in verifyEnv.keys
    /\ verifyEnv.policy.allowedAlgs = <<HS256, EdDSA>>
    /\ verifyRet = "UnsupportedAlg"

(* An ES256 token accepted under the empty list.                           *)
C14_WitnessEmptyList ==
    /\ VerifiedAsSigned
    /\ HeaderAlgKnown
    /\ HeaderAlg = ES256
    /\ verifyEnv.policy.allowedAlgs = <<>>
    /\ verifyRet = "Ok"

---------------------------------------------------------------------------
(* The verify call reached the time tests of validatePolicy: the provider  *)
(* accepted the signature and the issuer and audience tests passed.        *)
TimeChecksReached ==
    /\ verifyEnv.valid
    /\ Len(verifyCalls) = 6
    /\ verifyRet \notin {"KeyNotFound", "SignatureMismatch", "InvalidIssuer",
                         "InvalidAudience"}

(* An int64_t, or a double without fraction *)
IntegerValued(value) == value.t = "i" \/ (value.t = "d" /\ value.e >= 0)

IsIntegerClaim(claims, name) == name \in DOMAIN claims /\ IntegerValued(claims[name])

(* An integer-valued claim value that int64_t can hold *)
WithinInt64(value) ==
    \/ value.t = "i"
    \/ /\ value.t = "d"
       /\ ~TimesPow10(I64(Abs(value.m)), value.e).over
       /\ FitsI64(TimesPow10(I64(Abs(value.m)), value.e).v, value.m < 0)

ExactBuild == [add |-> "exact", cast |-> "saturate"]

Int64Of(value) ==
    IF value.t = "i" THEN value.v ELSE DoubleToI64(value.m, value.e, ExactBuild)

(* now > value + leeway over the integers; a double beyond int64_t is      *)
(* beyond every such sum.                                                  *)
Past(value, leeway, now) ==
    IF ~WithinInt64(value) THEN value.m < 0
    ELSE LessSum(Sum64(Int64Of(value), I64(leeway), ExactBuild), [v |-> I64(now), over |-> 0])

(* now + leeway < value over the integers *)
Ahead(value, leeway, now) ==
    IF ~WithinInt64(value) THEN value.m > 0
    ELSE LessSum(Sum64(I64(now), I64(leeway), ExactBuild), [v |-> Int64Of(value), over |-> 0])

(* C15: with requireExp set and the earlier checks passed, a token whose   *)
(* exp claim is absent or not integer-valued fails with PolicyViolation;   *)
(* otherwise it fails with Expired exactly when now > exp + leeway.        *)
C15_ExpiredExactlyWhenPast ==
    (TimeChecksReached /\ verifyEnv.policy.requireExp) =>
        IF ~IsIntegerClaim(verifier.claims, K_exp) THEN verifyRet = "PolicyViolation"
        ELSE (verifyRet = "Expired")
                 <=> Past(verifier.claims[K_exp], verifyEnv.policy.leewaySeconds,
                          verifyEnv.now)

(* The same for the exp values whose sum with the leeway stays inside      *)
(* int64_t.                                                                *)
C15_WithinInt64 ==
    (/\ TimeChecksReached /\ verifyEnv.policy.requireExp
     /\ IsIntegerClaim(verifier.claims, K_exp)
     /\ WithinInt64(verifier.claims[K_exp])
     /\ Overflow64(Int64Of(verifier.claims[K_exp]),
                   I64(verifyEnv.policy.leewaySeconds)) = 0)
    => ((verifyRet = "Expired")
            <=> Past(verifier.claims[K_exp], verifyEnv.policy.leewaySeconds, verifyEnv.now))

---------------------------------------------------------------------------
(* The verify call reached the nbf test: the time tests were reached and   *)
(* the exp test, if required, passed.                                      *)
NbfCheckReached ==
    /\ TimeChecksReached
    /\ verifyEnv.policy.requireNbf
    /\ verifyEnv.policy.requireExp =>
          /\ IsIntegerClaim(verifier.claims, K_exp)
          /\ verifyRet # "Expired"

(* C16: with requireNbf set and the earlier checks passed, a token whose   *)
(* nbf claim is absent or not integer-valued fails with PolicyViolation;   *)
(* otherwise it fails with NotYetValid exactly when now + leeway < nbf.    *)
C16_NotYetValidExactlyWhenAhead ==
    NbfCheckReached =>
        IF ~IsIntegerClaim(verifier.claims, K_nbf) THEN verifyRet = "PolicyViolation"
        ELSE (verifyRet = "NotYetValid")
                 <=> Ahead(verifier.claims[K_nbf], verifyEnv.policy.leewaySeconds,
                           verifyEnv.now)

(* The same for the nbf values that int64_t can hold.                      *)
C16_WithinInt64 ==
    (/\ NbfCheckReached
     /\ IsIntegerClaim(verifier.claims, K_nbf)
     /\ WithinInt64(verifier.claims[K_nbf]))
    => ((verifyRet = "NotYetValid")
            <=> Ahead(verifier.claims[K_nbf], verifyEnv.policy.leewaySeconds, verifyEnv.now))

---------------------------------------------------------------------------
(* The provider accepted the signature of the token: verify went on to     *)
(* validatePolicy.                                                         *)
SignatureAccepted ==
    /\ verifyEnv.valid
    /\ Len(verifyCalls) = 6
    /\ verifyRet \notin {"KeyNotFound", "SignatureMismatch"}

(* The claim is absent, is not a string, or differs from the expectation   *)
Mismatch(claims, name, expected) ==
    \/ name \notin DOMAIN claims
    \/ claims[name].t # "s"
    \/ claims[name].v # expected[1]

(* The result does not depend on the claim name: every other value of it,  *)
(* and its absence, give the result the call returned.                     *)
NoInfluence(name) ==
    \A value \in NameValues :
        validatePolicy(verifyEnv.policy,
                       WithClaim([k \in DOMAIN verifier.claims \ {name} |-> verifier.claims[k]],
                                 name, value),
                       verifyEnv.now, verifyEnv.build) = verifyRet

(* C17 as stated: for a correctly signed token, with expectedIss set       *)
(* verify returns InvalidIssuer exactly when iss is absent, no string or   *)
(* different; with expectedAud set it returns InvalidAudience exactly when *)
(* aud is absent, no string or different; an unset expectation leaves its  *)
(* claim without influence.                                                *)
C17_IssuerAudienceAsStated ==
    SignatureAccepted =>
        /\ verifyEnv.policy.expectedIss # Nullopt =>
              ((verifyRet = "InvalidIssuer")
                   <=> Mismatch(verifier.claims, K_iss, verifyEnv.policy.expectedIss))
        /\ verifyEnv.policy.expectedAud # Nullopt =>
              ((verifyRet = "InvalidAudience")
                   <=> Mismatch(verifier.claims, K_aud, verifyEnv.policy.expectedAud))
        /\ verifyEnv.policy.expectedIss = Nullopt => NoInfluence(K_iss)
        /\ verifyEnv.policy.expectedAud = Nullopt => NoInfluence(K_aud)

(* C17: as above, but the audience is tested only once the issuer test     *)
(* has passed: with expectedAud set verify returns InvalidAudience exactly *)
(* when it did not return InvalidIssuer and aud is absent, no string or    *)
(* different.                                                              *)
C17_IssuerBeforeAudience ==
    SignatureAccepted =>
        /\ verifyEnv.policy.expectedIss # Nullopt =>
              ((verifyRet = "InvalidIssuer")
                   <=> Mismatch(verifier.claims, K_iss, verifyEnv.policy.expectedIss))
        /\ verifyEnv.policy.expectedAud # Nullopt =>
              ((verifyRet = "InvalidAudience")
                   <=> /\ verifyRet # "InvalidIssuer"
                       /\ Mismatch(verifier.claims, K_aud, verifyEnv.policy.expectedAud))
        /\ verifyEnv.policy.expectedIss = Nullopt => NoInfluence(K_iss)
        /\ verifyEnv.policy.expectedAud = Nullopt => NoInfluence(K_aud)

(* Both expectations set, the issuer as expected and the audience another. *)
C17_Witness ==
    /\ SignatureAccepted
    /\ verifyEnv.policy.expectedIss = Some(S_me)
    /\ verifyEnv.policy.expectedAud = Some(S_me)
    /\ getStringClaim(verifier.claims, K_iss) = Some(S_me)
    /\ getStringClaim(verifier.claims, K_aud) = Some(S_other)
    /\ verifyRet = "InvalidAudience"

(* No expectation set and an iss claim that is no string: accepted.        *)
C17_WitnessUnset ==
    /\ SignatureAccepted
    /\ verifyEnv.policy.expectedIss = Nullopt
    /\ K_iss \in DOMAIN verifier.claims
    /\ verifier.claims[K_iss].t = "i"
    /\ verifyRet = "Ok"

---------------------------------------------------------------------------
LoadCalls == <<"loadPrivateKeyFromPemFile", "loadPublicKeyFromPemFile">>

GenerateCalls == <<"generateKeyPair", "savePrivateKeyToPemFile", "savePublicKeyToPemFile">>

(* C18: ensureKeyPairInBinaryDir calls the provider as follows: with both  *)
(* files present exactly loadPrivate then loadPublic; in every other case  *)
(* exactly generateKeyPair, savePrivate, savePublic; the sequence stops at *)
(* the first call that fails and that error is returned, otherwise Ok.     *)
C18_EnsureCallSequence ==
    bootEnv.valid =>
        LET full  == IF bootEnv.files = {"private", "public"} THEN LoadCalls
                     ELSE GenerateCalls
            fails == bootEnv.failAt >= 1 /\ bootEnv.failAt <= Len(full)
        IN  IF fails
            THEN bootCalls = SubSeq(full, 1, bootEnv.failAt) /\ bootRet = bootEnv.code
            ELSE bootCalls = full /\ bootRet = "Ok"

(* Only the public file was present: generate and both saves ran, and      *)
(* both files are there now.                                               *)
C18_Witness ==
    /\ bootEnv.valid
    /\ bootEnv.files = {"public"}
    /\ bootCalls = GenerateCalls
    /\ bootRet = "Ok"
    /\ files = {"private", "public"}

(* Both files present and the first load failed: nothing else was called.  *)
C18_WitnessFailure ==
    /\ bootEnv.valid
    /\ bootEnv.files = {"private", "public"}
    /\ bootCalls = <<"loadPrivateKeyFromPemFile">>
    /\ bootRet = "IOError"

----------------------------------------------------------------------------
(* Method texts of request lines handed to Router::fromMethodString, then  *)
(* routed with the value it returned.                                      *)
S_get     == <<103, 101, 116>>   \* "get"
S_Get     == <<71, 101, 116>>   \* "Get"
S_ANY     == <<65, 78, 89>>   \* "ANY"
S_any     == <<97, 110, 121>>   \* "any"
S_INVALID == <<73, 78, 86, 65, 76, 73, 68>>   \* "INVALID"
S_CONNECT == <<67, 79, 78, 78, 69, 67, 84>>   \* "CONNECT"
S_GETsp   == <<71, 69, 84, 32>>   \* "GET "
S_DELETE_ == <<68, 69, 76, 69, 84, 69, 95>>   \* "DELETE_"
S_post    == <<112, 111, 115, 116>>   \* "post"

MethodTexts ==
    { S_GET, S_POST, S_PUT, S_PATCH, S_DELETE, S_OPTIONS, S_HEAD,
      S_get, S_Get, S_post, S_ANY, S_any, S_INVALID, S_CONNECT, S_GETsp, S_DELETE_, <<>> }

MethodRoutes == {"GET", "POST", "DELETE", "ANY"}

InitMethod == RouterInit /\ ExecInit /\ BootInit /\ JwtInit

NextMethod ==
    \/ \E m \in MethodRoutes, h \in Handlers : Add(m, P_x, h)
    \/ \E text \in MethodTexts : FromMethodString(text)
    \/ (methodCall.valid /\ Match(methodCall.ret, P_x))
    \/ ClearCtx

SpecMethod == InitMethod /\ [][NextMethod]_vars

(* The seven texts the claim lists, each with the enum value it names.     *)
SevenMethods ==
    [ GET |-> S_GET, POST |-> S_POST, PUT |-> S_PUT, PATCH |-> S_PATCH,
      DELETE |-> S_DELETE, OPTIONS |-> S_OPTIONS, HEAD |-> S_HEAD ]

(* C19: fromMethodString maps exactly the seven upper-case texts GET, POST, *)
(* PUT, PATCH, DELETE, OPTIONS, HEAD to their enum values, returns GET for *)
(* every other text, and never returns ANY.                                *)
C19_FromMethodString ==
    methodCall.valid =>
        /\ \A name \in DOMAIN SevenMethods :
               methodCall.method = SevenMethods[name] => methodCall.ret = name
        /\ (\A name \in DOMAIN SevenMethods : methodCall.method # SevenMethods[name])
               => methodCall.ret = "GET"
        /\ methodCall.ret # "ANY"

(* A lower-case spelling was converted (to GET) and the request routed     *)
(* with the result reached the GET route.                                  *)
C19_Witness ==
    /\ methodCall.valid
    /\ methodCall.method = S_get
    /\ methodCall.ret = "GET"
    /\ matchDone
    /\ matchArgs = <<"GET", P_x>>
    /\ matchRes # NoRoute

(* The text "ANY" was converted, and the result was GET.                   *)
C19_WitnessAny ==
    /\ methodCall.valid
    /\ methodCall.method = S_ANY
    /\ methodCall.ret = "GET"

(* An upper-case name other than GET was converted to its own value.       *)
C19_WitnessDelete ==
    /\ methodCall.valid
    /\ methodCall.method = S_DELETE
    /\ methodCall.ret = "DELETE"

----------------------------------------------------------------------------
(* Specification SpecSlash: patterns and request paths with no, one and    *)
(* several leading and trailing slashes.                                   *)
Q_empty == <<>>   \* ""
Q_x     == <<120>>   \* "x"
Q_xs    == <<120, 47>>   \* "x/"
Q_ssx   == <<47, 47, 120>>   \* "//x"
Q_xss   == <<47, 120, 47, 47>>   \* "/x//"
Q_ss    == <<47, 47>>   \* "//"
Q_x5    == <<120, 47, 53>>   \* "x/5"
Q_x5s   == <<47, 120, 47, 53, 47>>   \* "/x/5/"
Q_xints == <<47, 120, 47, 60, 97, 58, 105, 110, 116, 62, 47>>   \* "/x/<a:int>/"

SlashPatterns == {P_root, P_x, Q_x, Q_xs, Q_xss, Q_ssx, Q_ss, P_xint, Q_xints}
SlashPaths    == {Q_empty, P_root, Q_ss, Q_x, P_x, Q_xs, P_xs, Q_ssx, Q_xss,
                  Q_x5, P_x5, Q_x5s}
SlashMethods  == {"GET"}

NextSlash ==
    \/ \E m \in SlashMethods, p \in SlashPatterns, h \in Handlers : Add(m, p, h)
    \/ \E m \in SlashMethods, path \in SlashPaths : Match(m, path)
    \/ ClearCtx

SpecSlash == Init /\ [][NextSlash]_vars

(* A step that is a call of match, a step that is a call of add.           *)
MatchStep == ~matchDone /\ matchDone'
AddStep   == addCount' = addCount + 1

(* The registration an add step made.                                      *)
Added == CHOOSE key \in DOMAIN registry' : registry'[key].seq = addCount'

(* What match (m, path, ctx) returns and captures in the router as it is,  *)
(* compared with what the step observed.                                   *)
SameOutcome(path) ==
    \E r \in {ImplMatch(root, matchArgs'[1], path)} :
        /\ r.route = matchRes'
        /\ r.calls = matchCalls'

(* add (m, pattern, h) would put the added route at the node the step put  *)
(* it at.                                                                  *)
SameNode(pattern) ==
    \E e \in {registry'[Added]} :
        root' = AddAt(root, splitPath(pattern), RouteInfo(e.method, e.pattern, e.handler))

EndsWithTwoSlashes(p) ==
    Len(p) >= 2 /\ p[Len(p)] = Slash /\ p[Len(p) - 1] = Slash

BeginsWithSlash(p) == Len(p) >= 2 /\ p[1] = Slash

C20_WitnessAdd ==
    /\ addCount = 1
    /\ <<NodeAddr(splitPath(P_x)), "GET">> \in DOMAIN registry
    /\ registry[<<NodeAddr(splitPath(P_x)), "GET">>].pattern = Q_xs

(* The path "/x" found the route "/x" although "//x" finds none.           *)
C20_WitnessDoubled ==
    /\ matchDone
    /\ matchArgs = <<"GET", P_x>>
    /\ matchRes.found
    /\ ~ImplMatch(root, "GET", <<Slash>> \o P_x).route.found

----------------------------------------------------------------------------
(* Specification SpecOrder: tokens put together from parts that each fail  *)
(* one check of verify or none, so that several checks fail in one token.  *)
S_none == <<110, 111, 110, 101>>   \* "none"
S_x    == <<120>>   \* "x"
S_zz   == <<122, 122>>   \* "zz"
S_bad  == <<98, 97, 100>>   \* "bad"
S_ab   == <<97, 46, 98>>   \* "a.b"
S_abcd == <<97, 46, 98, 46, 99, 46, 100>>   \* "a.b.c.d"

H_good   == Built(HS256, Kid1, EmptyMap).header
H_rs     == Built(RS256, Kid1, EmptyMap).header
H_noalg  == MapPut(EmptyMap, K_kid, VStr(Kid1))
H_nokid  == FreshBuilder.header
H_none   == MapPut(H_good, K_alg, VStr(S_none))
H_rsnokid == MapPut(FreshBuilder.header, K_alg, VStr(toAlgString(RS256)))

(* JSON texts of headers; S_x is no JSON text of the provider *)
OrderHeaderTexts ==
    {writeMap(h, "asc") : h \in {H_good, H_rs, H_noalg, H_nokid, H_none, H_rsnokid}} \cup {S_x}

NameTime(iss, aud, exp, nbf) ==
    MapPut(MapPut(MapPut(MapPut(EmptyMap, K_iss, VStr(iss)), K_aud, VStr(aud)),
                  K_exp, VInt(exp)), K_nbf, VInt(nbf))

OrderClaimTexts ==
    {writeMap(c, "asc") :
        c \in {NameTime(S_me, S_me, 200, 50), NameTime(S_other, S_other, 50, 150),
               NameTime(S_me, S_other, 50, 150), NameTime(S_me, S_me, 50, 150),
               NameTime(S_me, S_me, 200, 150)}} \cup {S_x}

(* The parts as they stand in a token; S_zz is no encoding of the provider *)
OrderHeaderParts == {base64UrlEncode(t) : t \in OrderHeaderTexts} \cup {S_zz}
OrderClaimParts  == {base64UrlEncode(t) : t \in OrderClaimTexts} \cup {S_zz}

(* The third part: the signature the provider makes for HS256 and Kid1, a   *)
(* signature it does not make, no encoding.                                *)
OrderSignatureParts(signingInput) ==
    {base64UrlEncode(CryptoSign({Kid1}, HS256, Kid1, signingInput).signature),
     base64UrlEncode(S_bad), S_zz}

OrderTokens ==
    {S_ab, S_abcd}
    \cup UNION { UNION { { h \o <<Dot>> \o p \o <<Dot>> \o s :
                            s \in OrderSignatureParts(h \o <<Dot>> \o p) } :
                         p \in OrderClaimParts } :
                 h \in OrderHeaderParts }

P_Strict ==
    [allowedAlgs |-> <<HS256>>, expectedIss |-> Some(S_me), expectedAud |-> Some(S_me),
     leewaySeconds |-> 0, requireExp |-> TRUE, requireNbf |-> TRUE]

OrderPolicies == {DefaultPolicy, P_Strict}

InitOrder ==
    /\ RouterInit /\ ExecInit /\ BootInit
    /\ keys_ = {}
    /\ options_ \in OrderPolicies
    /\ builder = FreshBuilder
    /\ outToken \in OrderTokens
    /\ signRet = "None"
    /\ signedAs = [valid |-> FALSE]
    /\ tampered = FALSE
    /\ verifier = FreshVerifier
    /\ verifyRet = "None"
    /\ verifyCalls = <<>>
    /\ verifyEnv = [valid |-> FALSE]

NextOrder ==
    \/ GenerateKeyPair(Kid1, HS256)
    \/ \E now \in Nows : Verify(now, WrapMinBuild)

SpecOrder == InitOrder /\ [][NextOrder]_vars

(* The checks of verify, each taken alone.  A policy with every test of    *)
(* validatePolicy switched off, and with one of them switched on.          *)
NoTests(policy) ==
    [policy EXCEPT !.expectedIss = Nullopt, !.expectedAud = Nullopt,
                   !.requireExp = FALSE, !.requireNbf = FALSE]

OnlyIss(policy) == [NoTests(policy) EXCEPT !.expectedIss = policy.expectedIss]
OnlyAud(policy) == [NoTests(policy) EXCEPT !.expectedAud = policy.expectedAud]
OnlyExp(policy) == [NoTests(policy) EXCEPT !.requireExp = policy.requireExp]
OnlyNbf(policy) == [NoTests(policy) EXCEPT !.requireNbf = policy.requireNbf]

(* The code of the first failing entry of a sequence of codes, Ok when     *)
(* none fails.                                                             *)
RECURSIVE FirstFailure(_)
FirstFailure(codes) ==
    IF codes = <<>> THEN "Ok"
    ELSE IF Head(codes) # "Ok" THEN Head(codes)
    ELSE FirstFailure(Tail(codes))

(* The four policy tests in the order iss, aud, exp, nbf.                  *)
PolicyInOrder(policy, claims, now, build) ==
    FirstFailure(<< validatePolicy(OnlyIss(policy), claims, now, build),
                    validatePolicy(OnlyAud(policy), claims, now, build),
                    validatePolicy(OnlyExp(policy), claims, now, build),
                    validatePolicy(OnlyNbf(policy), claims, now, build) >>)

(* The checks on the parsed header and claims in the order alg present and *)
(* known, alg allowed, kid present, provider verify, policy.               *)
ParsedInOrder(header, claims, signingInput, signature, env) ==
    IF getStringValue(header, K_alg) = Nullopt THEN "UnsupportedAlg"
    ELSE IF fromAlgString(getStringValue(header, K_alg)[1]) = Nullopt THEN "UnsupportedAlg"
    ELSE IF ~AlgListed(env.policy.allowedAlgs,
                       fromAlgString(getStringValue(header, K_alg)[1])[1])
            /\ env.policy.allowedAlgs # <<>>
    THEN "UnsupportedAlg"
    ELSE IF getStringValue(header, K_kid) = Nullopt THEN "KeyNotFound"
    ELSE FirstFailure(<< CryptoVerify(env.keys,
                                      fromAlgString(getStringValue(header, K_alg)[1])[1],
                                      getStringValue(header, K_kid)[1],
                                      signingInput, signature),
                         PolicyInOrder(env.policy, claims, env.now, env.build) >>)

(* The checks on the three parts in the order decode header, payload,      *)
(* signature, parse header, parse claims, then the rest.                   *)
PartsInOrder(h, p, s, env) ==
    \E hdec \in {base64UrlDecode(h)}, pdec \in {base64UrlDecode(p)},
       sdec \in {base64UrlDecode(s)} :
        IF hdec.code # "Ok" THEN verifyRet = hdec.code /\ Len(verifyCalls) = 1
        ELSE IF pdec.code # "Ok" THEN verifyRet = pdec.code /\ Len(verifyCalls) = 2
        ELSE IF sdec.code # "Ok" THEN verifyRet = sdec.code /\ Len(verifyCalls) = 3
        ELSE \E hp \in {parseMap(hdec.data)}, cp \in {parseMap(pdec.data)} :
            IF hp.code # "Ok" THEN verifyRet = hp.code /\ Len(verifyCalls) = 4
            ELSE IF cp.code # "Ok" THEN verifyRet = cp.code /\ Len(verifyCalls) = 5
            ELSE verifyRet = ParsedInOrder(hp.map, cp.map, h \o <<Dot>> \o p, sdec.data,
                                           verifyEnv)

(* The parts of a token with exactly two dots *)
PartOf(token, n) ==
    CASE n = 1 -> SubSeq(token, 1, Find(token, Dot, 1) - 1)
      [] n = 2 -> SubSeq(token, Find(token, Dot, 1) + 1, SecondDotOf(token) - 1)
      [] n = 3 -> SubSeq(token, SecondDotOf(token) + 1, Len(token))

PolicyCodes == {"InvalidIssuer", "InvalidAudience", "Expired", "NotYetValid", "PolicyViolation"}

(* C21: verify reports the error of the earliest failing check in the      *)
(* order part count, decode of header, payload, signature, header parse,   *)
(* claims parse, alg present and known, alg allowed, kid present, provider *)
(* verify, iss, aud, exp, nbf; a code of validatePolicy is returned only   *)
(* when the provider's verify was called and accepted the signature.       *)
C21_EarliestFailureReported ==
    verifyEnv.valid =>
        /\ IF DotCount(verifier.rawToken) # 2
           THEN verifyRet = "InvalidFormat" /\ verifyCalls = <<>>
           ELSE PartsInOrder(PartOf(verifier.rawToken, 1), PartOf(verifier.rawToken, 2),
                             PartOf(verifier.rawToken, 3), verifyEnv)
        /\ verifyRet \in PolicyCodes =>
              /\ Len(verifyCalls) = 6
              /\ verifyCalls[6] = "verify"
              /\ CryptoVerify(verifyEnv.keys, HeaderAlg,
                              getStringValue(verifier.header, K_kid)[1],
                              SigningInputOf(verifier.rawToken),
                              SignatureBytesOf(verifier.rawToken)) = "Ok"

(* A token whose signature is not the provider's and whose exp is past,    *)
(* with the key held: the provider's error is reported.                    *)
C21_Witness ==
    /\ verifyEnv.valid
    /\ Kid1 \in verifyEnv.keys
    /\ verifier.rawToken =
           base64UrlEncode(writeMap(H_good, "asc")) \o <<Dot>>
           \o base64UrlEncode(writeMap(NameTime(S_me, S_me, 50, 150), "asc")) \o <<Dot>>
           \o base64UrlEncode(S_bad)
    /\ validatePolicy(verifyEnv.policy, verifier.claims, verifyEnv.now, verifyEnv.build)
           = "Expired"
    /\ verifyRet = "SignatureMismatch"

(* The same payload correctly signed: Expired.                             *)
C21_WitnessExpired ==
    /\ verifyEnv.valid
    /\ verifyEnv.policy = P_Strict
    /\ verifier.claims = NameTime(S_me, S_me, 50, 150)
    /\ verifyRet = "Expired"

(* A header with a disallowed algorithm and no kid, then a payload that is *)
(* no JSON text: the claims parse is reported.                             *)
C21_WitnessParse ==
    /\ verifyEnv.valid
    /\ verifier.header = H_rsnokid
    /\ verifier.rawPayloadJson = S_x
    /\ verifyRet = "InvalidJson"
    /\ Len(verifyCalls) = 5

(* A disallowed algorithm and no kid: the algorithm is reported.           *)
C21_WitnessAlgBeforeKid ==
    /\ verifyEnv.valid
    /\ verifyEnv.policy = P_Strict
    /\ verifier.header = H_rsnokid
    /\ verifyRet = "UnsupportedAlg"

----------------------------------------------------------------------------
(* Specification SpecRank: parameters of every type, of an unknown type    *)
(* name and without type, under capture names that differ, registered for  *)
(* two methods in every order and matched.                                 *)
T_foo   == <<47, 120, 47, 60, 105, 100, 58, 102, 111, 111, 62>>   \* "/x/<id:foo>"
T_int2  == <<47, 120, 47, 60, 98, 58, 105, 110, 116, 62>>   \* "/x/<b:int>"
T_intk  == <<47, 120, 47, 60, 97, 58, 105, 110, 116, 62, 47, 60, 107, 62>>   \* "/x/<a:int>/<k>"
T_int2m == <<47, 120, 47, 60, 98, 58, 105, 110, 116, 62, 47, 60, 109, 58, 102, 111, 111, 62>>   \* "/x/<b:int>/<m:foo>"
L_5new  == <<47, 120, 47, 53, 47, 110, 101, 119>>   \* "/x/5/new"

RankPatterns == TypedPatterns \cup {T_foo, T_int2, T_intk, T_int2m}
RankPaths    == {L_5, L_new, L_5new}
RankMethods  == {"GET", "POST"}

NextRank ==
    \/ \E m \in RankMethods, p \in RankPatterns, h \in Handlers : Add(m, p, h)
    \/ \E m \in RankMethods, path \in RankPaths : Match(m, path)
    \/ ClearCtx

SpecRank == Init /\ [][NextRank]_vars

(* A typed-parameter sequence strictly ascending by rank.                  *)
Ascending(typed_params) ==
    \A i \in 1..(Len(typed_params) - 1) : typed_params[i].type < typed_params[i + 1].type

(* Every node of the trie below node, node included, holds one.            *)
RECURSIVE EveryNodeAscending(_)
EveryNodeAscending(node) ==
    /\ Ascending(node.typed_params)
    /\ \A i \in 1..Len(node.typed_params) : node.typed_params[i].type \in ParamTypes
    /\ \A key \in DOMAIN node.literals : EveryNodeAscending(node.literals[key])
    /\ \A i \in 1..Len(node.typed_params) : EveryNodeAscending(node.typed_params[i].next)

(* The ascending sequence that holds one entry for each type of types.     *)
RECURSIVE AscendingOf(_)
AscendingOf(types) ==
    IF types = {} THEN <<>>
    ELSE LET least == CHOOSE t \in types : \A u \in types : t <= u
         IN  <<[name |-> <<110>>, type |-> least, next |-> EmptyNode]>>
             \o AscendingOf(types \ {least})

(* Parameter segments of every type name, of an unknown one and of none.   *)
G_int    == <<60, 110, 58, 105, 110, 116, 62>>   \* "<n:int>"
G_b64    == <<60, 110, 58, 98, 97, 115, 101, 54, 52, 105, 100, 62>>   \* "<n:base64id>"
G_string == <<60, 110, 58, 115, 116, 114, 105, 110, 103, 62>>   \* "<n:string>"
G_uuid   == <<60, 110, 58, 117, 117, 105, 100, 62>>   \* "<n:uuid>"
G_float  == <<60, 110, 58, 102, 108, 111, 97, 116, 62>>   \* "<n:float>"
G_gen    == <<60, 110, 62>>   \* "<n>"
G_foo    == <<60, 110, 58, 102, 111, 111, 62>>   \* "<n:foo>"

ParamSegments == {G_int, G_b64, G_string, G_uuid, G_float, G_gen, G_foo}

(* getOrCreateNode on a node whose sequence is ascending leaves it          *)
(* ascending, with one entry more exactly when the type was not there.     *)
AscendingKept ==
    \A types \in SUBSET ParamTypes, segment \in ParamSegments :
        \E r \in {getOrCreateNode([EmptyNode EXCEPT !.typed_params = AscendingOf(types)],
                                  segment)} :
            /\ Ascending(r.node.typed_params)
            /\ {r.node.typed_params[i].type : i \in 1..Len(r.node.typed_params)}
                   = types \cup {parseSegment(segment).type}
            /\ r.node.typed_params[r.idx].type = parseSegment(segment).type

(* The node of /x *)
XNode == root.literals[<<120>>]

Registered(pattern) == \E key \in DOMAIN registry : registry[key].pattern = pattern

(* C22: after any sequence of add calls every node's typed-parameter       *)
(* sequence is strictly ascending by rank, so it holds at most one entry   *)
(* per type; a segment with an unknown type name shares the one GENERIC    *)
(* entry with the segments without type.                                   *)
C22_TypedParamsAscending ==
    /\ EveryNodeAscending(root)
    /\ AscendingKept
    /\ parseSegment(G_foo).type = GENERIC
    /\ (Registered(T_foo) /\ Registered(T_gen)) =>
          /\ Cardinality({i \in 1..Len(XNode.typed_params) :
                              XNode.typed_params[i].type = GENERIC}) = 1
          /\ NodeAddr(splitPath(T_foo)) = NodeAddr(splitPath(T_gen))

(* Float registered before int: int stands first.                          *)
C22_Witness ==
    /\ Registered(T_float) /\ Registered(T_int)
    /\ \E kf, ki \in DOMAIN registry :
           /\ registry[kf].pattern = T_float /\ registry[ki].pattern = T_int
           /\ registry[kf].seq < registry[ki].seq
    /\ Len(XNode.typed_params) = 2
    /\ XNode.typed_params[1].type = INT
    /\ XNode.typed_params[2].type = FLOAT

(* <id:foo> and <v> registered for two methods: one GENERIC entry that     *)
(* holds both routes.                                                      *)
C22_WitnessUnknownType ==
    /\ Registered(T_foo) /\ Registered(T_gen)
    /\ Len(XNode.typed_params) = 1
    /\ XNode.typed_params[1].type = GENERIC
    /\ DOMAIN XNode.typed_params[1].next.handlers = {"GET", "POST"}

----------------------------------------------------------------------------
(* The registrations whose pattern goes through the int parameter of /x,   *)
(* and the capture name the earliest of them wrote in its pattern.         *)
IntKeys ==
    {key \in DOMAIN registry :
        Len(key[1]) >= 2 /\ SubSeq(key[1], 1, 2) = XAddr(<<"par", INT>>)}

FirstIntName ==
    LET first == CHOOSE key \in IntKeys :
                     \A other \in IntKeys : registry[key].seq <= registry[other].seq
    IN  parseSegment(splitPath(registry[first].pattern)[2]).name

(* No registration was replaced: the registry holds every add made.        *)
NothingReplaced == addCount = Cardinality(DOMAIN registry)

(* C23: when /x/<a:int> and /x/<b:int> are registered for two methods,     *)
(* both routes are held, and match of /x/s with either method returns that *)
(* method's route and records s under the name of the first registration   *)
(* that went through the parameter, never under a later name.              *)
(* The entry of the int parameter at the node of /x *)
XInt == XNode.typed_params[IndexOfType(XNode.typed_params, INT)]

C23_FirstNameKept ==
    (NothingReplaced /\ Registered(T_int) /\ Registered(T_int2)) =>
        /\ \E m1, m2 \in RankMethods :
               /\ m1 # m2
               /\ registry[<<XAddr(<<"par", INT>>), m1>>].pattern = T_int
               /\ registry[<<XAddr(<<"par", INT>>), m2>>].pattern = T_int2
               /\ getHandler(XInt.next, m1).pattern = T_int
               /\ getHandler(XInt.next, m2).pattern = T_int2
        /\ XInt.name = FirstIntName
        /\ (matchDone /\ matchArgs[2] = L_5) =>
              /\ SameRoute(matchRes, registry[<<XAddr(<<"par", INT>>), matchArgs[1]>>])
              /\ matchCalls = << <<FirstIntName, <<53>>>> >>
              /\ ctx = (FirstIntName :> <<53>>)

(* GET /x/<a:int> first, POST /x/<b:int> second, POST /x/5 matched: the    *)
(* POST route, the capture under a.                                        *)
C23_Witness ==
    /\ addCount = 2
    /\ <<XAddr(<<"par", INT>>), "GET">> \in DOMAIN registry
    /\ <<XAddr(<<"par", INT>>), "POST">> \in DOMAIN registry
    /\ registry[<<XAddr(<<"par", INT>>), "GET">>].pattern = T_int
    /\ registry[<<XAddr(<<"par", INT>>), "GET">>].seq = 1
    /\ registry[<<XAddr(<<"par", INT>>), "POST">>].pattern = T_int2
    /\ matchDone
    /\ matchArgs = <<"POST", L_5>>
    /\ matchRes.found /\ matchRes.pattern = T_int2 /\ matchRes.method = "POST"
    /\ ctx = (<<97>> :> <<53>>)

(* The other order: <b:int> first, the GET route of <a:int> matched, the   *)
(* capture under b.                                                        *)
C23_WitnessOtherOrder ==
    /\ addCount = 2
    /\ <<XAddr(<<"par", INT>>), "POST">> \in DOMAIN registry
    /\ <<XAddr(<<"par", INT>>), "GET">> \in DOMAIN registry
    /\ registry[<<XAddr(<<"par", INT>>), "POST">>].pattern = T_int2
    /\ registry[<<XAddr(<<"par", INT>>), "POST">>].seq = 1
    /\ registry[<<XAddr(<<"par", INT>>), "GET">>].pattern = T_int
    /\ matchDone
    /\ matchArgs = <<"GET", L_5>>
    /\ matchRes.found /\ matchRes.pattern = T_int
    /\ ctx = (<<98>> :> <<53>>)

----------------------------------------------------------------------------
(* Specification SpecGreedy: a literal child and typed siblings that both  *)
(* accept a segment, with routes below only some of them.                  *)
G_stry == <<47, 120, 47, 60, 98, 58, 115, 116, 114, 105, 110, 103, 62, 47, 121>>   \* "/x/<b:string>/y"
G_newy == <<47, 120, 47, 110, 101, 119, 47, 121>>   \* "/x/new/y"

GreedyPatterns == {P_xinty, P_x5, P_x5z, P_xint, G_stry}
GreedyPaths    == {P_x5y, P_x5, P_x5z, G_newy}
GreedyMethods  == {"GET"}

NextGreedy ==
    \/ \E m \in GreedyMethods, p \in GreedyPatterns, h \in Handlers : Add(m, p, h)
    \/ \E m \in GreedyMethods, path \in GreedyPaths : Match(m, path)
    \/ ClearCtx

SpecGreedy == Init /\ [][NextGreedy]_vars

(* The node at an address (one edge per segment) *)
RECURSIVE NodeAt(_, _)
NodeAt(node, addr) ==
    IF addr = <<>> THEN node
    ELSE IF Head(addr)[1] = "lit" THEN NodeAt(node.literals[Head(addr)[2]], Tail(addr))
    ELSE NodeAt(node.typed_params[IndexOfType(node.typed_params, Head(addr)[2])].next,
                Tail(addr))

S_5 == <<53>>   \* "5"
S_y == <<121>>   \* "y"

(* The segments of /x/5/y, and the trie holding the literal child 5 of /x  *)
(* with nothing below it for y.                                            *)
IsX5Y == splitPath(matchArgs[2]) = <<S_x, S_5, S_y>>

LiteralFiveWithoutY ==
    /\ S_x \in DOMAIN root.literals
    /\ S_5 \in DOMAIN XNode.literals
    /\ S_y \notin DOMAIN XNode.literals[S_5].literals
    /\ XNode.literals[S_5].typed_params = <<>>

(* /x has no literal child 5, its int entry has nothing below it for y.    *)
IntWithoutY ==
    /\ S_x \in DOMAIN root.literals
    /\ S_5 \notin DOMAIN XNode.literals
    /\ IndexOfType(XNode.typed_params, INT) # 0
    /\ S_y \notin DOMAIN XInt.next.literals
    /\ XInt.next.typed_params = <<>>

(* C24: match follows one child per segment, the literal child when there  *)
(* is one and else the first accepting typed parameter, and returns what   *)
(* the node it ends at holds; when the literal child 5 exists the typed    *)
(* parameters are not tried (no capture is made) and /x/5/y returns no     *)
(* route whatever lies below them; when the int parameter accepts, the     *)
(* string sibling is not tried.                                            *)
C24_NoBacktracking ==
    matchDone =>
        /\ \E addr \in {TerminalAddr(root, splitPath(matchArgs[2]), <<>>)} :
               IF addr = <<"none">> THEN ~matchRes.found
               ELSE /\ matchRes.found <=> getHandler(NodeAt(root, addr), matchArgs[1]).found
                    /\ matchRes.found => matchRes = getHandler(NodeAt(root, addr), matchArgs[1])
        /\ (IsX5Y /\ LiteralFiveWithoutY) => (~matchRes.found /\ matchCalls = <<>>)
        /\ (IsX5Y /\ IntWithoutY) => (~matchRes.found /\ matchCalls = << <<<<97>>, S_5>> >>)

(* /x/<a:int>/y registered, then /x/5: /x/5/y finds no route and makes no  *)
(* capture, although it found the first route before the second add.       *)
C24_Witness ==
    /\ addCount = 2
    /\ Registered(P_xinty) /\ Registered(P_x5)
    /\ registry[<<NodeAddr(splitPath(P_xinty)), "GET">>].seq = 1
    /\ matchDone
    /\ matchArgs = <<"GET", P_x5y>>
    /\ ~matchRes.found
    /\ matchCalls = <<>>
    /\ ImplMatch(ImplAdd(EmptyNode, "GET", P_xinty, "h1"), "GET", P_x5y).route.found

(* /x/<a:int> and /x/<b:string>/y: the int entry takes 5 and the string    *)
(* sibling, which leads to a route, is not tried.                          *)
C24_WitnessTyped ==
    /\ addCount = 2
    /\ Registered(P_xint) /\ Registered(G_stry)
    /\ matchDone
    /\ matchArgs = <<"GET", P_x5y>>
    /\ ~matchRes.found
    /\ matchCalls = << <<<<97>>, S_5>> >>

----------------------------------------------------------------------------
(* Specification SpecString: the string parameter of /x with a sibling of  *)
(* every other type and a literal sibling; segments that uuid, float, int  *)
(* and base64id accept, the empty segment, and others.                     *)
Q_xsss == <<47, 120, 47, 47, 47>>   \* "/x///"

StringPatterns == TypedPatterns \cup {L_new}
StringPaths    == {L_uuid, L_1p5, L_new, L_5, L_b64, L_12a, L_plus, Q_xsss}

NextString ==
    \/ \E m \in TypedMethods, p \in StringPatterns, h \in Handlers : Add(m, p, h)
    \/ \E m \in TypedMethods, path \in StringPaths : Match(m, path)
    \/ ClearCtx

SpecString == Init /\ [][NextString]_vars

(* The node of /x has a string parameter.                                  *)
HasStringParam ==
    /\ S_x \in DOMAIN root.literals
    /\ IndexOfType(XNode.typed_params, STRING_) # 0

(* The second segment of the matched path, which has two.                  *)
TwoSegments == Len(splitPath(matchArgs[2])) = 2 /\ splitPath(matchArgs[2])[1] = S_x

Segment2 == splitPath(matchArgs[2])[2]

(* C25: at a node that has a string parameter the uuid and float siblings  *)
(* are never selected: every non-empty segment that is no literal child    *)
(* and that int and base64id reject is captured by the string parameter,   *)
(* valid uuids and decimals included; a generic sibling is selected only   *)
(* for the empty segment; no path reaches the routes under uuid or float.  *)
C25_StringShadowsUuidAndFloat ==
    (matchDone /\ TwoSegments /\ HasStringParam) =>
        /\ matchRes.found => matchRes.pattern \notin {T_uuid, T_float}
        /\ (/\ Segment2 # <<>>
            /\ Segment2 \notin DOMAIN XNode.literals
            /\ ~validateIntParam(Segment2)
            /\ ~validateBase64IdParam(Segment2))
           => /\ matchRes.found
              /\ matchRes.pattern = T_string
              /\ matchCalls = << <<<<98>>, Segment2>> >>
        /\ (matchRes.found /\ matchRes.pattern = T_gen) => Segment2 = <<>>
        /\ \A path \in StringPaths :
               \E r \in {ImplMatch(root, matchArgs[1], path).route} :
                   r.found => r.pattern \notin {T_uuid, T_float}

(* A valid uuid at a node with a string and a uuid parameter: the string   *)
(* route is returned.                                                      *)
C25_Witness ==
    /\ Registered(T_string) /\ Registered(T_uuid)
    /\ matchDone
    /\ matchArgs = <<"GET", L_uuid>>
    /\ validateUuidParam(Segment2)
    /\ matchRes.found /\ matchRes.pattern = T_string
    /\ ctx = (<<98>> :> Segment2)

(* The decimal 1.5 with a string and a float parameter.                    *)
C25_WitnessFloat ==
    /\ Registered(T_string) /\ Registered(T_float)
    /\ matchDone
    /\ matchArgs = <<"GET", L_1p5>>
    /\ validateFloatParam(Segment2)
    /\ matchRes.found /\ matchRes.pattern = T_string

(* The empty segment with a string and a generic parameter: generic.       *)
C25_WitnessEmpty ==
    /\ Registered(T_string) /\ Registered(T_gen)
    /\ matchDone
    /\ matchArgs = <<"GET", Q_xsss>>
    /\ Segment2 = <<>>
    /\ matchRes.found /\ matchRes.pattern = T_gen

---------------------------------------------------------------------------
(* Concurrent readers: Router::Impl::match is a const member that works   *)
(* on locals (segments, current) and writes only to the context it was     *)
(* handed.  Each caller runs the loop of match one iteration at a time.    *)

(* The locals of match after splitPath (path) and current = &root_, with   *)
(* the caller's fresh context; entered is history: what the router held    *)
(* when the call was made.                                                 *)
BeginCall(t, method, path, router) ==
    [pc |-> "loop", method |-> method, path |-> path, segments |-> splitPath(path),
     current |-> t, res |-> NoRoute, calls |-> <<>>, params |-> EmptyMap,
     entered |-> router]

(* One iteration of the loop of match for the call r, or the getHandler    *)
(* that follows the loop when no segment is left.                          *)
LoopStep(r) ==
    IF r.segments = <<>>
    THEN [r EXCEPT !.pc = "done", !.res = getHandler(r.current, r.method)]
    ELSE LET segment == Head(r.segments) IN
         IF segment \in DOMAIN r.current.literals
         THEN [r EXCEPT !.current = r.current.literals[segment], !.segments = Tail(@)]
         ELSE LET i == FirstAccepting(r.current.typed_params, segment) IN
              IF i = 0 THEN [r EXCEPT !.pc = "done"]
              ELSE [r EXCEPT !.calls = Append(@, <<r.current.typed_params[i].name, segment>>),
                             !.params = MapPut(@, r.current.typed_params[i].name, segment),
                             !.current = r.current.typed_params[i].next,
                             !.segments = Tail(@)]

(* Mutant of StepCall: current and the segments left are kept in the       *)
(* router, so the step of one caller moves every call that is in the loop. *)
StepCall_SharedCursor(rs, c) ==
    [d \in DOMAIN rs |->
        IF d = c THEN LoopStep(rs[c])
        ELSE IF rs[d].pc = "loop" /\ LoopStep(rs[c]).pc = "loop"
        THEN [rs[d] EXCEPT !.current = LoopStep(rs[c]).current,
                           !.segments = LoopStep(rs[c]).segments]
        ELSE rs[d]]

(* The calls in progress after caller c has run one step of its match:     *)
(* nothing but the locals and the context of c is written.                 *)
StepCall(rs, c) == [rs EXCEPT ![c] = LoopStep(rs[c])]

(* Caller c enters router.match (method, path, its own context).  The      *)
(* registrations are over by then: add and addMiddleware need ~matchDone.  *)
CallMatch(c, method, path) ==
    /\ matchDone
    /\ reqs[c].pc = "idle"
    /\ reqs' = [reqs EXCEPT ![c] = BeginCall(root, method, path,
                                             <<root, registry, globalMws>>)]
    /\ UNCHANGED <<root, addCount, ctx, matchDone, matchArgs, matchRes, matchCalls,
                   mwCount, registry, methodCall>>
    /\ UNCHANGED <<execVars, jwtVars, bootVars>>

(* Caller c runs one step of its match.                                    *)
StepMatch(c) ==
    /\ reqs[c].pc = "loop"
    /\ reqs' = StepCall(reqs, c)
    /\ UNCHANGED <<root, addCount, ctx, matchDone, matchArgs, matchRes, matchCalls,
                   mwCount, registry, methodCall>>
    /\ UNCHANGED <<execVars, jwtVars, bootVars>>

(* Caller c is through with the result and with its context.               *)
EndRequest(c) ==
    /\ reqs[c].pc = "done"
    /\ reqs' = [reqs EXCEPT ![c] = IdleCall]
    /\ UNCHANGED <<root, addCount, ctx, matchDone, matchArgs, matchRes, matchCalls,
                   mwCount, registry, methodCall>>
    /\ UNCHANGED <<execVars, jwtVars, bootVars>>

P_x7y == <<47, 120, 47, 55, 47, 121>>   \* "/x/7/y"

SharePatterns == {P_xint, P_xinty, P_x5}
SharePaths    == {P_x5, P_x7y}
ShareMethods  == {"GET"}

NextShare ==
    \/ \E m \in ShareMethods, p \in SharePatterns, h \in Handlers : Add(m, p, h)
    \/ \E ref \in DOMAIN registry, mw \in Middlewares : AddMiddleware(ref, mw)
    \/ \E mw \in Middlewares : AddGlobalMiddleware(mw)
    \/ \E path \in SharePaths : Match("GET", path)
    \/ \E c \in Callers, path \in SharePaths : CallMatch(c, "GET", path)
    \/ \E c \in Callers : StepMatch(c)
    \/ \E c \in Callers : EndRequest(c)

SpecShare == Init /\ [][NextShare]_vars

(* What the router holds: the trie with its handler maps and routes, and   *)
(* the global middlewares.                                                 *)
RouterState == <<root, registry, globalMws>>

(* A call that has returned holds what match gives for its arguments when  *)
(* run alone on the router, in its result and in its context.              *)
ReturnsAsAlone(r) ==
    \E alone \in {ImplMatch(root, r.method, r.path)} :
        /\ r.res = alone.route
        /\ r.calls = alone.calls
        /\ r.params = ApplyCalls(EmptyMap, alone.calls)

(* C26: match never changes the router: while a call is in progress and   *)
(* after it has returned, with a route or without, the trie, the routes    *)
(* with pattern, method and middlewares and the global middlewares are     *)
(* what they were when the call was made; a call that has returned,        *)
(* however its steps were interleaved with those of the other caller,      *)
(* holds the route and the captures that match gives for its arguments     *)
(* alone, so the same arguments give the same route and captures to every  *)
(* caller and to the call of the main thread.                              *)
C26_MatchReadsOnly ==
    \A c \in Callers :
        /\ reqs[c].pc # "idle" => RouterState = reqs[c].entered
        /\ reqs[c].pc = "done" =>
              /\ ReturnsAsAlone(reqs[c])
              /\ \A d \in Callers :
                    (reqs[d].pc = "done" /\ reqs[d].path = reqs[c].path) =>
                        /\ reqs[d].res = reqs[c].res
                        /\ reqs[d].calls = reqs[c].calls
              /\ matchArgs = <<reqs[c].method, reqs[c].path>> =>
                    /\ reqs[c].res = matchRes
                    /\ reqs[c].calls = matchCalls

(* Both callers inside match at once, each past its first segment, on      *)
(* different paths of a router that holds a typed route with a middleware. *)
C26_Witness ==
    /\ \A c \in Callers : reqs[c].pc = "loop" /\ Len(reqs[c].segments) = 1
    /\ reqs["t1"].path = P_x5 /\ reqs["t2"].path = P_x7y
    /\ Registered(P_xint) /\ Registered(P_xinty)
    /\ mwCount > 0

(* Both calls have returned: one with a route and a capture, the other     *)
(* with no route.                                                          *)
C26_WitnessDone ==
    /\ \A c \in Callers : reqs[c].pc = "done"
    /\ reqs["t1"].res.found /\ reqs["t1"].calls # <<>>
    /\ ~reqs["t2"].res.found
    /\ reqs["t1"].path # reqs["t2"].path

(* Both calls have returned for the same path with a capture.              *)
C26_WitnessSame ==
    /\ \A c \in Callers : reqs[c].pc = "done" /\ reqs[c].path = P_x5
    /\ reqs["t1"].res.found /\ reqs["t1"].calls # <<>>

---------------------------------------------------------------------------
(* Registration over an existing route.  The router of SpecReplace has     *)
(* been set up with POST /x, a middleware attached to it, and GET /x/y;     *)
(* addCount and mwCount count the calls made after that set-up.            *)

ReplaceHandlers == {"h1", "h2"}
ReplacePatterns == {P_x, P_xs}
ReplaceMethods  == {"GET", "POST"}
ReplacePaths    == {P_x, P_xy}

KeyPostX == <<NodeAddr(splitPath(P_x)), "POST">>
KeyGetX  == <<NodeAddr(splitPath(P_x)), "GET">>
KeyGetXY == <<NodeAddr(splitPath(P_xy)), "GET">>

InitReplace ==
    /\ root = ImplAdd(PushMiddleware(ImplAdd(EmptyNode, "POST", P_x, "h1"),
                                     KeyPostX[1], "POST", "mw1"),
                      "GET", P_xy, "h1")
    /\ registry = MapPut(MapPut(EmptyMap, KeyPostX,
                                [pattern |-> P_x, method |-> "POST", handler |-> "h1",
                                 seq |-> 0, attached |-> <<"mw1">>]),
                         KeyGetXY,
                         [pattern |-> P_xy, method |-> "GET", handler |-> "h1",
                          seq |-> 0, attached |-> <<>>])
    /\ addCount = 0
    /\ ctx = EmptyMap
    /\ matchDone = FALSE
    /\ matchArgs = <<>>
    /\ matchRes = NoRoute
    /\ matchCalls = <<>>
    /\ mwCount = 0
    /\ methodCall = [valid |-> FALSE]
    /\ reqs = [c \in Callers |-> IdleCall]
    /\ ExecInit /\ BootInit /\ JwtInit

NextReplace ==
    \/ \E m \in ReplaceMethods, p \in ReplacePatterns, h \in ReplaceHandlers : Add(m, p, h)
    \/ \E ref \in DOMAIN registry, mw \in Middlewares : AddMiddleware(ref, mw)
    \/ \E mw \in Middlewares : AddGlobalMiddleware(mw)
    \/ \E m \in ReplaceMethods, path \in ReplacePaths : Match(m, path)

SpecReplace == InitReplace /\ [][NextReplace]_vars

(* The (node, method) entries the trie holds: one per handler of a node.   *)
RECURSIVE Slots(_, _)
Slots(node, addr) ==
    {<<addr, m>> : m \in DOMAIN node.handlers}
    \cup UNION {Slots(node.literals[k], Append(addr, <<"lit", k>>)) :
                    k \in DOMAIN node.literals}
    \cup UNION {Slots(node.typed_params[i].next,
                      Append(addr, <<"par", node.typed_params[i].type>>)) :
                    i \in 1..Len(node.typed_params)}

(* The RouteInfo of the last registration e with the middlewares attached  *)
(* to it since.                                                            *)
RouteOf(e) == [RouteInfo(e.method, e.pattern, e.handler) EXCEPT !.middlewares = e.attached]

(* C27: add (m, p, h) at a node that holds a route for m replaces that     *)
(* route as a whole.  Every entry of the trie is the RouteInfo of the last *)
(* add made for its node and method, with the pattern text and handler of  *)
(* that add and only the middlewares attached after it; so the entries of  *)
(* the other methods and nodes are as the calls made for them left them.   *)
(* The entries of the trie are those of every (node, method) ever          *)
(* registered, those of the set-up among them: none disappears.  match     *)
(* returns the entry of the node its traversal ends at.                    *)
C27_AddReplacesWhole ==
    /\ Slots(root, <<>>) = DOMAIN registry
    /\ \A key \in DOMAIN registry :
          NodeAt(root, key[1]).handlers[key[2]] = RouteOf(registry[key])
    /\ {KeyPostX, KeyGetXY} \subseteq Slots(root, <<>>)
    /\ matchDone =>
          \E key \in {<<TerminalAddr(root, splitPath(matchArgs[2]), <<>>), matchArgs[1]>>} :
              key \in DOMAIN registry => matchRes = RouteOf(registry[key])

(* GET /x registered, a middleware attached to it, GET /x/ registered with *)
(* another handler: match of GET /x returns pattern /x/, the new handler   *)
(* and no middleware; POST /x still has its handler and its middleware.    *)
C27_Witness ==
    /\ addCount = 2 /\ mwCount = 1
    /\ KeyGetX \in DOMAIN registry
    /\ registry[KeyGetX].seq = 2
    /\ registry[KeyGetX].attached = <<>>
    /\ registry[KeyPostX].seq = 0 /\ registry[KeyPostX].attached = <<"mw1">>
    /\ registry[KeyGetXY].attached = <<>>
    /\ matchDone /\ matchArgs = <<"GET", P_x>>
    /\ matchRes = [found |-> TRUE, pattern |-> P_xs, method |-> "GET", handler |-> "h2",
                   middlewares |-> <<>>]
    /\ NodeAt(root, KeyPostX[1]).handlers["POST"].middlewares = <<"mw1">>
    /\ Len(globalMws) = 1

(* POST /x, which the set-up registered with a middleware, is registered   *)
(* again: its middleware is gone.                                          *)
C27_WitnessSetUp ==
    /\ registry[KeyPostX].seq = 1 /\ registry[KeyPostX].handler = "h2"
    /\ matchDone /\ matchArgs = <<"POST", P_x>>
    /\ matchRes.found /\ matchRes.handler = "h2" /\ matchRes.middlewares = <<>>

---------------------------------------------------------------------------
(* The context across a match: ICtx offers match nothing but setParam.     *)

S_a == <<97>>   \* "a"
S_z == <<122>>   \* "z"
S_9 == <<57>>   \* "9"

(* ctx.setParam (name, value) made by the caller before it calls match.    *)
SetParam(name, value) ==
    /\ ~matchDone
    /\ name \notin DOMAIN ctx
    /\ ctx' = ApplyCalls(ctx, << <<name, value>> >>)
    /\ UNCHANGED <<root, addCount, matchDone, matchArgs, matchRes, matchCalls, mwCount,
                   registry, methodCall, reqs>>
    /\ UNCHANGED <<execVars, jwtVars, bootVars>>

CtxPatterns == {P_xint, T_intk, P_xinty}
CtxPaths    == {L_5, L_5new, P_x5z, L_new}
CtxMethods  == {"GET", "POST"}

NextCtx ==
    \/ \E p \in CtxPatterns, h \in Handlers : Add("GET", p, h)
    \/ \E name \in {S_a, S_z} : SetParam(name, S_9)
    \/ \E m \in CtxMethods, path \in CtxPaths : Match(m, path)
    \/ ClearCtx

SpecCtx == Init /\ [][NextCtx]_vars

(* The segments a traversal from node consumes through a typed parameter,  *)
(* each with the name of the parameter, in path order, up to the segment   *)
(* no child takes.                                                         *)
RECURSIVE TypedSteps(_, _)
TypedSteps(node, segments) ==
    IF segments = <<>> THEN <<>>
    ELSE IF Head(segments) \in DOMAIN node.literals
    THEN TypedSteps(node.literals[Head(segments)], Tail(segments))
    ELSE LET hits == {i \in 1..Len(node.typed_params) :
                        Validate(node.typed_params[i].type, Head(segments))}
         IN  IF hits = {} THEN <<>>
             ELSE LET i == CHOOSE k \in hits : \A j \in hits : k <= j
                  IN  << <<node.typed_params[i].name, Head(segments)>> >>
                      \o TypedSteps(node.typed_params[i].next, Tail(segments))

C28_WitnessMethod ==
    /\ matchDone /\ matchArgs = <<"POST", L_5>>
    /\ Registered(P_xint)
    /\ ~matchRes.found
    /\ matchCalls = << <<S_a, S_5>> >>
    /\ ctx = ApplyCalls(EmptyMap, << <<S_a, S_5>> >>)

(* Two typed segments: two calls in path order.                            *)
C28_WitnessTwo ==
    /\ matchDone /\ matchArgs = <<"GET", L_5new>>
    /\ matchRes.found
    /\ matchCalls = << <<S_a, S_5>>, <<<<107>>, <<110, 101, 119>>>> >>
    /\ S_z \in DOMAIN ctx

---------------------------------------------------------------------------
(* A verifier used again: the caller keeps one Verifier and hands it to    *)
(* verify for one token after another.                                     *)

(* The caller's token string takes the text of another token it received.  *)
TakeToken(token) ==
    /\ token # outToken
    /\ outToken' = token
    /\ signedAs' = [valid |-> FALSE]
    /\ tampered' = FALSE
    /\ UNCHANGED <<keys_, options_, builder, signRet, verifier, verifyRet, verifyCalls,
                   verifyEnv>>
    /\ UNCHANGED <<routerVars, execVars, bootVars>>

(* A token of header text, claims text and the signature of HS256 and Kid1 *)
(* over them, or one the provider does not make.                           *)
TokenOf(headerText, claimsText, signed) ==
    Once({ signingInput \o <<Dot>>
           \o base64UrlEncode(IF signed
                              THEN CryptoSign({Kid1}, HS256, Kid1, signingInput).signature
                              ELSE S_bad)
           : signingInput \in {base64UrlEncode(headerText) \o <<Dot>>
                               \o base64UrlEncode(claimsText)} })

R_header  == writeMap(H_good, "asc")
R_good    == writeMap(NameTime(S_me, S_me, 200, 50), "asc")
R_other   == writeMap(NameTime(S_other, S_other, 200, 50), "asc")
R_expired == writeMap(NameTime(S_me, S_me, 50, 50), "asc")

Tok_good      == TokenOf(R_header, R_good, TRUE)
Tok_other     == TokenOf(R_header, R_other, TRUE)
Tok_expired   == TokenOf(R_header, R_expired, TRUE)
Tok_badsig    == TokenOf(R_header, R_good, FALSE)
Tok_badclaims == TokenOf(R_header, S_x, TRUE)
Tok_badheader == TokenOf(S_x, R_good, TRUE)
Tok_nodecode  == S_zz \o <<Dot>> \o base64UrlEncode(R_good) \o <<Dot>> \o base64UrlEncode(S_bad)

ReuseTokens ==
    {Tok_good, Tok_other, Tok_expired, Tok_badsig, Tok_badclaims, Tok_badheader,
     Tok_nodecode, S_ab}

InitReuse ==
    /\ RouterInit /\ ExecInit /\ BootInit
    /\ keys_ = {}
    /\ options_ \in OrderPolicies
    /\ builder = FreshBuilder
    /\ outToken \in ReuseTokens
    /\ signRet = "None"
    /\ signedAs = [valid |-> FALSE]
    /\ tampered = FALSE
    /\ verifier = FreshVerifier
    /\ verifyRet = "None"
    /\ verifyCalls = <<>>
    /\ verifyEnv = [valid |-> FALSE]

NextReuse ==
    \/ GenerateKeyPair(Kid1, HS256)
    \/ \E token \in ReuseTokens : TakeToken(token)
    \/ \E now \in Nows : Verify(now, WrapMinBuild)

SpecReuse == InitReuse /\ [][NextReuse]_vars

(* What verify leaves in a verifier that was default-constructed just      *)
(* before the call.                                                        *)
IntoFresh ==
    JwtVerify(FreshVerifier, verifyEnv.token, verifyEnv.keys, verifyEnv.policy,
              verifyEnv.now, verifyEnv.build).v

(* C29: verify first resets the output verifier.  After a call the         *)
(* verifier is what the call leaves in a default-constructed one, whatever *)
(* it held before: rawToken is the token of this call, ok() is true only   *)
(* when the call returned Ok; when the call failed before parseHeader was  *)
(* reached the raw JSON texts, the header and the claims are empty, and     *)
(* when parseHeader failed the claims are empty.                           *)
C29_VerifierReset ==
    verifyEnv.valid =>
        /\ verifier = IntoFresh
        /\ verifier.rawToken = verifyEnv.token
        /\ verifier.ok <=> verifyRet = "Ok"
        /\ Len(verifyCalls) < 4 =>
              /\ verifyRet # "Ok"
              /\ verifier.rawHeaderJson = <<>> /\ verifier.rawPayloadJson = <<>>
              /\ verifier.header = EmptyMap /\ verifier.claims = EmptyMap
        /\ (Len(verifyCalls) = 4 /\ verifyRet # "Ok") => verifier.claims = EmptyMap

(* A verifier that held ok = true is handed to verify with a token that    *)
(* has no three parts: it comes back failed and empty but for the token.   *)
C29_Witness ==
    /\ verifyEnv.valid /\ verifyEnv.heldOk
    /\ verifyEnv.token = S_ab
    /\ verifyRet = "InvalidFormat"
    /\ verifier = [FreshVerifier EXCEPT !.rawToken = S_ab, !.error = "InvalidFormat"]

(* The same with a token that fails at the signature: header and claims    *)
(* are those of the new token.                                             *)
C29_WitnessSignature ==
    /\ verifyEnv.valid /\ verifyEnv.heldOk
    /\ verifyEnv.token = Tok_badsig
    /\ verifyRet = "SignatureMismatch"
    /\ ~verifier.ok
    /\ verifier.claims = NameTime(S_me, S_me, 200, 50)

(* The same with a token whose payload is no JSON text: the claims of the  *)
(* earlier token are gone.                                                 *)
C29_WitnessClaims ==
    /\ verifyEnv.valid /\ verifyEnv.heldOk
    /\ verifyEnv.token = Tok_badclaims
    /\ verifyRet # "Ok" /\ ~verifier.ok
    /\ verifier.header = H_good
    /\ verifier.claims = EmptyMap /\ verifier.rawPayloadJson = S_x

(* The same with a token whose first part does not decode.                 *)
C29_WitnessDecode ==
    /\ verifyEnv.valid /\ verifyEnv.heldOk
    /\ verifyEnv.token = Tok_nodecode
    /\ ~verifier.ok
    /\ verifier.rawHeaderJson = <<>> /\ verifier.header = EmptyMap

---------------------------------------------------------------------------
(* The time claims when the policy does not require them.                  *)

(* The claim map without the claim of that name.                           *)
WithoutClaim(claims, name) == [k \in (DOMAIN claims) \ {name} |-> claims[k]]

(* The provider accepted the signature: verify went on to validatePolicy.  *)
PolicyReached ==
    /\ verifyEnv.valid
    /\ Len(verifyCalls) = 6
    /\ verifyRet \notin {"KeyNotFound", "SignatureMismatch"}

(* C30: time claims are examined only when required.  verify returns       *)
(* Expired only under requireExp and NotYetValid only under requireNbf.    *)
(* With requireExp false the outcome for a correctly signed token is that  *)
(* of the same token without its exp claim, whatever exp holds; with       *)
(* requireNbf false it is that of the token without its nbf claim; with    *)
(* both false and no issuer or audience expected the token is accepted.    *)
C30_TimeClaimsOnlyWhenRequired ==
    verifyEnv.valid =>
        /\ verifyRet = "Expired" => verifyEnv.policy.requireExp
        /\ verifyRet = "NotYetValid" => verifyEnv.policy.requireNbf
        /\ (PolicyReached /\ ~verifyEnv.policy.requireExp) =>
              verifyRet = validatePolicy(verifyEnv.policy, WithoutClaim(verifier.claims, K_exp),
                                         verifyEnv.now, verifyEnv.build)
        /\ (PolicyReached /\ ~verifyEnv.policy.requireNbf) =>
              verifyRet = validatePolicy(verifyEnv.policy, WithoutClaim(verifier.claims, K_nbf),
                                         verifyEnv.now, verifyEnv.build)
        /\ (PolicyReached /\ ~verifyEnv.policy.requireExp /\ ~verifyEnv.policy.requireNbf
              /\ verifyEnv.policy.expectedIss = Nullopt
              /\ verifyEnv.policy.expectedAud = Nullopt) =>
              verifyRet = "Ok" /\ verifier.ok

(* requireExp false, leeway 0, exp = 98 at clock 100: accepted.            *)
C30_Witness ==
    /\ PolicyReached /\ VerifiedAsSigned
    /\ ~verifyEnv.policy.requireExp /\ verifyEnv.policy.leewaySeconds = 0
    /\ verifyEnv.signedAs.claims = WithClaim(EmptyMap, K_exp, VInt(98))
    /\ verifyEnv.now = 100
    /\ verifyRet = "Ok" /\ verifier.ok

(* requireExp false and no exp claim: accepted.                            *)
C30_WitnessMissing ==
    /\ PolicyReached /\ VerifiedAsSigned
    /\ ~verifyEnv.policy.requireExp
    /\ verifyEnv.signedAs.claims = EmptyMap
    /\ verifyRet = "Ok" /\ verifier.ok

(* requireExp false and an exp claim that is a string: accepted.           *)
C30_WitnessMalformed ==
    /\ PolicyReached /\ VerifiedAsSigned
    /\ ~verifyEnv.policy.requireExp
    /\ verifyEnv.signedAs.claims = WithClaim(EmptyMap, K_exp, VStr(S_200))
    /\ verifyRet = "Ok" /\ verifier.ok

(* requireNbf false (requireExp set, exp = 200), leeway 10, nbf = 111 at   *)
(* clock 100: accepted.                                                    *)
C30_WitnessNbf ==
    /\ PolicyReached /\ VerifiedAsSigned
    /\ verifyEnv.policy.requireExp /\ ~verifyEnv.policy.requireNbf
    /\ verifyEnv.policy.leewaySeconds = 10
    /\ verifyEnv.signedAs.claims =
           WithClaim(WithClaim(EmptyMap, K_exp, VInt(200)), K_nbf, VInt(111))
    /\ verifyEnv.now = 100
    /\ verifyRet = "Ok" /\ verifier.ok

=============================================================================
